---- MODULE Spec2Model ----
(***************************************************************************)
(* Model of the Lambda Deployer (lambda_deployer package).                 *)
(*                                                                         *)
(* The program is a sequential orchestrator, LambdaDeployer.deploy, which  *)
(* drives four managers (VPCConfigurator, IAMRoleManager,                  *)
(* LambdaFunctionDeployer, S3AccessManager).  Every manager is a sequence  *)
(* of calls to a cloud provider.  The model has one action per provider    *)
(* call site, the program counter pc naming the call the program issues    *)
(* next, and the provider's resources (roles, policies, attachments,       *)
(* functions, buckets, network) as the state those calls read and change.  *)
(* Every provider call can also answer with a fault the code does not      *)
(* interpret (AccessDenied), which the code re-raises.                     *)
(***************************************************************************)
EXTENDS Integers, Sequences, FiniteSets, TLC

(***************************************************************************)
(* Bounds of the model.                                                    *)
(***************************************************************************)
MaxOps == 1      \* operations (deploys or direct manager calls) per behaviour
MaxRoleCalls == 2  \* calls of create_or_update_role in a sequence of calls
MaxFunctionCalls == 2  \* calls of deploy_function in a sequence of calls
MaxDeploys == 2  \* deploys run one after the other with the same arguments
PageSize == 1    \* entries the provider returns per page of a listing

(***************************************************************************)
(* Values.                                                                 *)
(***************************************************************************)
None == "<None>"                       \* Python's None for Optional[str]
NoneList == [some |-> FALSE, v |-> <<>>]   \* Python's None for Optional[List]
SomeList(s) == [some |-> TRUE, v |-> s]

\* Python truthiness of an Optional[str] and of an Optional[List[str]]
Truthy(s) == s # None /\ s # ""
\* TruthyList as a test against None only
TruthyListNotNone(l) == l.some
TruthyList(l) == l.some /\ Len(l.v) > 0

AccountId == "123456789012"
Region == "us-east-1"

DefaultMemorySize == 128
DefaultTimeout == 30

\* vpc_config of deploy: None, or the dict built by create_vpc_config
NoVpcConfig ==
    [some |-> FALSE, SubnetIds |-> <<>>, hasSG |-> FALSE, SecurityGroupIds |-> <<>>]

SeqToSet(s) == {s[i] : i \in 1..Len(s)}

(***************************************************************************)
(* Names the model draws inputs and resources from.                        *)
(***************************************************************************)
FunctionNames == {"f"}
ImageUris == {"img1"}
BucketNames == {"b1", "b2", "b-404", "b-403", "b-500"}
OkBuckets == {"b1", "b2"}
GivenRoleNames == {"r"}
VpcIds == {"vpc-1", "vpc-2", "vpc-9"}
SubnetIdLists == {<<"s1">>, <<"s1", "s2">>, <<"s2", "s1">>, <<"s1", "s1">>,
                  <<"s3">>, <<"s4">>, <<"s9">>}
GroupIdLists == {<<"g1">>, <<"g1", "g3">>, <<"g2">>, <<"g9">>}

\* DefaultRoleName without the "lambda-" prefix
DefaultRoleNameNoPrefix(function_name) == function_name \o "-role"

\* f"lambda-{function_name}-role"
DefaultRoleName(function_name) == "lambda-" \o function_name \o "-role"

\* f"{role_name}-s3-access" and f"{role_name}-basic-execution"
S3PolicyName(role_name) == role_name \o "-s3-access"
BasicPolicyName(role_name) == role_name \o "-basic-execution"

\* ARNs as the provider assigns them: a function of account and name
PolicyArn(policy_name) == "arn:aws:iam::" \o AccountId \o ":policy/" \o policy_name
RoleArn(role_name) == "arn:aws:iam::" \o AccountId \o ":role/" \o role_name
FunctionArn(function_name) ==
    "arn:aws:lambda:" \o Region \o ":" \o AccountId \o ":function:" \o function_name

\* A managed policy that is not one of the program's own
ForeignPolicyArn == "arn:aws:iam::aws:policy/ReadOnlyAccess"

RoleUniverse == GivenRoleNames \cup {DefaultRoleName(f) : f \in FunctionNames} \cup {"other-role"}
OwnRoles == RoleUniverse \ {"other-role"}
PolicyUniverse ==
    {PolicyArn(S3PolicyName(r)) : r \in OwnRoles}
      \cup {PolicyArn(BasicPolicyName(r)) : r \in OwnRoles}
      \cup {ForeignPolicyArn}

LambdaService == "lambda.amazonaws.com"

\* A trust document that also lets the EC2 service assume the role
TrustPolicyWithEc2 == {LambdaService, "ec2.amazonaws.com"}

\* self.lambda_execution_trust_policy: the principals allowed to assume the role
LambdaExecutionTrustPolicy == {LambdaService}

\* The policy ARN the code builds from the account id and the policy name
PolicyArnIn(account_id, policy_name) ==
    "arn:aws:iam::" \o account_id \o ":policy/" \o policy_name

VARIABLES
    \* the provider's resources
    roles,       \* role name -> [exists, id, arn, trust, inline]
    policies,    \* policy ARN -> [exists, id, kind, bucket]
    attached,    \* set of <<role name, policy ARN>>: managed policies attached to roles
    functions,   \* function name -> [exists, arn, image, role, memory, timeout, vpc, env, busy]
    buckets,     \* bucket name -> what head_bucket answers: "200", "404", "403", "500"
    ec2,         \* [vpcs, subnets, groups]: the network, which the program only reads
    nextId,      \* the next unique id the provider assigns to a role or a policy
    \* the program
    pc,          \* the call the program issues next; "idle" between operations
    entry,       \* the operation in progress: "deploy" or the manager method called directly
    args,        \* the arguments of the operation in progress
    loc,         \* local variables of the methods in progress
    outcome,     \* how the last operation ended: [status, type, msg, function_arn, role_arn]
    \* history
    steps,       \* manager methods called and returned in the current operation
    calls,       \* provider calls issued in the current operation
    pre,         \* the provider's resources when the current operation started
    nops,        \* operations started so far
    \* a second process running the program against the same account
    peer         \* its pc, entry, args, loc, outcome, steps, calls, pre and nops

provider == <<roles, policies, attached, functions, buckets, ec2, nextId>>
vars == <<roles, policies, attached, functions, buckets, ec2, nextId,
          pc, entry, args, loc, outcome, steps, calls, pre, nops, peer>>

(***************************************************************************)
(* The provider's resources.                                               *)
(***************************************************************************)
NoRole == [exists |-> FALSE, id |-> 0, arn |-> "", trust |-> {}, inline |-> {}]
NoPolicy == [exists |-> FALSE, id |-> 0, kind |-> "", bucket |-> ""]
NoFunction ==
    [exists |-> FALSE, arn |-> "", image |-> "", role |-> "", memory |-> 0,
     timeout |-> 0, vpc |-> NoVpcConfig, env |-> {}, busy |-> FALSE]

\* Managed policies attached to a role, and roles a policy is attached to
AttachedTo(att, role_name) == {p \in PolicyUniverse : <<role_name, p>> \in att}
RolesOf(att, policy_arn) == {r \in RoleUniverse : <<r, policy_arn>> \in att}

\* The network: vpc-1 is available, vpc-2 exists but is still pending,
\* vpc-9 does not exist.  s1, s2 are available subnets of vpc-1, s3 is an
\* available subnet of vpc-2, s4 is a pending subnet of vpc-1, s9 does not
\* exist.  g1, g3 are groups of vpc-1, g2 of vpc-2, g9 does not exist.
Network ==
    [vpcs |-> [v \in {"vpc-1", "vpc-2"} |-> IF v = "vpc-1" THEN "available" ELSE "pending"],
     subnets |-> [s \in {"s1", "s2", "s3", "s4"} |->
                    [VpcId |-> IF s = "s3" THEN "vpc-2" ELSE "vpc-1",
                     State |-> IF s = "s4" THEN "pending" ELSE "available"]],
     groups |-> [g \in {"g1", "g2", "g3"} |->
                    [VpcId |-> IF g = "g2" THEN "vpc-2" ELSE "vpc-1"]]]

\* An account in which role `target` (when ex) exists with the managed
\* policies att and the inline policies inl, the target's bucket policy
\* exists when s3b names the bucket it is scoped to, its basic-execution
\* policy exists when basicEx, and the bucket policy is also attached to
\* other-role when otherAtt.
IamRoles(target, ex, inl) ==
    [r \in RoleUniverse |->
        IF r = "other-role" \/ (r = target /\ ex)
        THEN [exists |-> TRUE, id |-> IF r = target THEN 1 ELSE 2, arn |-> RoleArn(r),
              trust |-> IF r = target THEN {"ec2.amazonaws.com"} ELSE {LambdaService},
              inline |-> IF r = target THEN inl ELSE {}]
        ELSE NoRole]

IamPolicies(target, s3b, basicEx) ==
    [p \in PolicyUniverse |->
        IF p = ForeignPolicyArn THEN [exists |-> TRUE, id |-> 3, kind |-> "foreign", bucket |-> ""]
        ELSE IF p = PolicyArn(S3PolicyName(target)) /\ s3b # ""
             THEN [exists |-> TRUE, id |-> 4, kind |-> "s3", bucket |-> s3b]
        ELSE IF p = PolicyArn(BasicPolicyName(target)) /\ basicEx
             THEN [exists |-> TRUE, id |-> 5, kind |-> "logs", bucket |-> ""]
        ELSE NoPolicy]

IamAttached(target, att, otherAtt) ==
    {<<target, p>> : p \in att}
      \cup (IF otherAtt THEN {<<"other-role", PolicyArn(S3PolicyName(target))>>} ELSE {})

\* Ids above are below the first id the provider hands out afterwards
FirstFreeId == Cardinality(RoleUniverse) + Cardinality(PolicyUniverse)

\* The consistent accounts: a policy that is attached exists, and a role
\* that does not exist has nothing attached.
IamEnvs(targets, inlineSets, bucketChoices) ==
    {e \in [target : targets, ex : BOOLEAN, att : SUBSET PolicyUniverse,
            inl : inlineSets, s3b : bucketChoices \cup {""}, basicEx : BOOLEAN,
            otherAtt : BOOLEAN] :
        /\ e.att \subseteq {PolicyArn(S3PolicyName(e.target)),
                            PolicyArn(BasicPolicyName(e.target)), ForeignPolicyArn}
        /\ ~e.ex => (e.att = {} /\ e.inl = {})
        /\ PolicyArn(S3PolicyName(e.target)) \in e.att => e.s3b # ""
        /\ PolicyArn(BasicPolicyName(e.target)) \in e.att => e.basicEx
        /\ e.otherAtt => e.s3b # ""}

\* A function that an earlier deployment left behind
OldFunction(withVpc) ==
    [exists |-> TRUE, arn |-> FunctionArn("f"), image |-> "img0",
     role |-> RoleArn("other-role"), memory |-> 256, timeout |-> 60,
     vpc |-> IF withVpc
             THEN [some |-> TRUE, SubnetIds |-> <<"s2">>, hasSG |-> TRUE,
                   SecurityGroupIds |-> <<"g3">>]
             ELSE NoVpcConfig,
     env |-> {<<"LOG_LEVEL", "debug">>, <<"S3_BUCKET", "b0">>}, busy |-> FALSE]

NoOutcome == [status |-> "none", type |-> "", msg |-> "", function_arn |-> "", role_arn |-> ""]

NoArgs ==
    [ecr_image_uri |-> "", function_name |-> "", s3_bucket |-> "", role_name |-> None,
     memory_size |-> DefaultMemorySize, timeout |-> DefaultTimeout, vpc_id |-> None,
     subnet_ids |-> NoneList, security_group_ids |-> NoneList,
     force_recreate_role |-> FALSE]

NoLoc ==
    [role_name |-> "",
     vpc_config |-> NoVpcConfig, role_exists |-> FALSE, role_arn |-> "",
     policy_arn |-> "", basic_policy_arn |-> "", account_id |-> "",
     page |-> <<>>, truncated |-> FALSE, seen |-> {}, marker |-> 0,
     function_exists |-> FALSE, function_arn |-> "", current_env |-> {}]

Snapshot == [roles |-> roles, policies |-> policies, attached |-> attached,
             functions |-> functions]

\* The program state of the process that takes the steps
Self ==
    [pc |-> pc, entry |-> entry, args |-> args, loc |-> loc, outcome |-> outcome,
     steps |-> steps, calls |-> calls, pre |-> pre, nops |-> nops]

\* A process that has not called anything yet
NotStarted ==
    [pc |-> "idle", entry |-> "none", args |-> NoArgs, loc |-> NoLoc,
     outcome |-> NoOutcome, steps |-> <<>>, calls |-> <<>>,
     pre |-> [roles |-> <<>>, policies |-> <<>>, attached |-> {}, functions |-> <<>>],
     nops |-> 0]

InitProgram ==
    /\ pc = "idle"
    /\ entry = "none"
    /\ args = NoArgs
    /\ loc = NoLoc
    /\ outcome = NoOutcome
    /\ steps = <<>>
    /\ calls = <<>>
    /\ nops = 0
    /\ pre = Snapshot
    /\ peer = NotStarted

\* What head_bucket answers for each bucket: b1 and b2 exist, the others
\* are missing, forbidden, or make the storage service fail
BucketTable ==
    [b \in BucketNames |->
        IF b = "b-404" THEN "404" ELSE IF b = "b-403" THEN "403"
        ELSE IF b = "b-500" THEN "500" ELSE "200"]

InitProvider(iamEnvs, oldFunctions) ==
    /\ \E e \in iamEnvs :
          /\ roles = IamRoles(e.target, e.ex, e.inl)
          /\ policies = IamPolicies(e.target, e.s3b, e.basicEx)
          /\ attached = IamAttached(e.target, e.att, e.otherAtt)
    /\ nextId = FirstFreeId
    /\ \E old \in oldFunctions : functions = [f \in FunctionNames |-> old]
    /\ buckets = BucketTable
    /\ ec2 = Network

(***************************************************************************)
(* How an operation ends, and what the history records.                    *)
(***************************************************************************)
Running == [NoOutcome EXCEPT !.status = "running"]
Raised(type, msg) == [NoOutcome EXCEPT !.status = "raised", !.type = type, !.msg = msg]
Returned(function_arn, role_arn) ==
    [NoOutcome EXCEPT !.status = "returned", !.function_arn = function_arn,
                      !.role_arn = role_arn]

\* The fault of a provider call that the code does not interpret
OtherFault == Raised("ClientError", "AccessDenied")

\* A manager method being called (ev = "call") or returning (ev = "ret")
Ev(step, ev, a, l) ==
    [step |-> step, ev |-> ev, args |-> a, role_name |-> l.role_name,
     role_arn |-> l.role_arn, vpc_config |-> l.vpc_config,
     function_arn |-> l.function_arn]

\* A provider call: the API and the resource it names
Call(api, target) == <<api, target>>

(***************************************************************************)
(* LambdaDeployer.deploy: parameter validation, the default role name and  *)
(* the decision whether the network is validated (main.py lines 78-103).   *)
(* The first manager call of the deploy is the next step.                  *)
(***************************************************************************)
ResolveRoleName(role_name, function_name) ==
    IF ~Truthy(role_name) THEN DefaultRoleName(function_name) ELSE role_name

\* ValidateParameters without the check of the bucket name
ValidateParametersNoBucket(a) ==
    IF ~Truthy(a.ecr_image_uri) THEN "ECR image URI is required"
    ELSE IF ~Truthy(a.function_name) THEN "Function name is required"
    ELSE IF Truthy(a.vpc_id) /\ ~TruthyList(a.subnet_ids)
         THEN "Subnet IDs must be provided when using VPC configuration"
    ELSE ""

ValidateParameters(a) ==
    IF ~Truthy(a.ecr_image_uri) THEN "ECR image URI is required"
    ELSE IF ~Truthy(a.function_name) THEN "Function name is required"
    ELSE IF ~Truthy(a.s3_bucket) THEN "S3 bucket name is required"
    ELSE IF Truthy(a.vpc_id) /\ ~TruthyList(a.subnet_ids)
         THEN "Subnet IDs must be provided when using VPC configuration"
    ELSE ""

\* FirstStep with the network validated whenever subnets are given
FirstStepWhenSubnets(a) ==
    IF Truthy(a.vpc_id) \/ TruthyList(a.subnet_ids) THEN "describe_vpcs" ELSE "get_role"

\* The first manager deploy calls: the network validator when vpc_id is
\* given (line 94), else the role manager (line 107)
FirstStep(a) == IF Truthy(a.vpc_id) THEN "describe_vpcs" ELSE "get_role"

\* The first call of the manager deploy calls after a step returned: the
\* role step after the network step (line 107), the function step after
\* the role step (line 115), the storage step after the function step
\* (line 126)
\* DeployNext with the function step placed before the role step
DeployNextFunctionFirst(step) ==
    CASE step = "vpc" -> "get_function"
      [] step = "role" -> "head_bucket"
      [] step = "function" -> "get_role"

DeployNext(step) ==
    CASE step = "vpc" -> "get_role"
      [] step = "role" -> "get_function"
      [] step = "function" -> "head_bucket"

\* deploy is entered with the arguments a
StartDeploy(a) ==
    /\ pc = "idle"
    /\ nops' = nops + 1
    /\ entry' = "deploy"
    /\ args' = a
    /\ pre' = Snapshot
    /\ calls' = <<>>
    /\ steps' = <<>>
    /\ IF ValidateParameters(a) # ""
       THEN /\ outcome' = Raised("ValueError", ValidateParameters(a))
            /\ pc' = "idle"
            /\ loc' = NoLoc
       ELSE /\ outcome' = Running
            /\ loc' = [NoLoc EXCEPT !.role_name = ResolveRoleName(a.role_name, a.function_name)]
            /\ pc' = FirstStep(a)
    /\ UNCHANGED <<provider, peer>>

\* A call of LambdaDeployer.deploy
Deploy(a) ==
    /\ nops < MaxOps
    /\ StartDeploy(a)

\* deploy is run again with the arguments of the run before, which returned
DeployAgain(a) ==
    /\ nops < MaxDeploys
    /\ nops > 0 => (outcome.status = "returned" /\ a = args)
    /\ StartDeploy(a)

(***************************************************************************)
(* VPCConfigurator.create_vpc_config.                                      *)
(***************************************************************************)
\* ValidateVpc without the test of the VPC's state
ValidateVpcAnyState(net, vpc_id) == vpc_id \in DOMAIN net.vpcs

\* _validate_vpc on the answer of describe_vpcs(VpcIds=[vpc_id]); an
\* unknown id is answered with InvalidVpcID.NotFound
ValidateVpc(net, vpc_id) ==
    IF vpc_id \notin DOMAIN net.vpcs THEN FALSE
    ELSE net.vpcs[vpc_id] = "available"

\* The provider answers a describe call with one entry per matching resource
Described(table, ids) == {i \in SeqToSet(ids) : i \in DOMAIN table}

\* ValidateSubnets without the comparison of the subnet's VPC
ValidateSubnetsAnyVpc(net, subnet_ids, vpc_id) ==
    IF \E i \in 1..Len(subnet_ids) : subnet_ids[i] \notin DOMAIN net.subnets THEN FALSE
    ELSE IF Cardinality(Described(net.subnets, subnet_ids)) # Len(subnet_ids) THEN FALSE
    ELSE \A s \in Described(net.subnets, subnet_ids) : net.subnets[s].State = "available"

\* _validate_subnets on the answer of describe_subnets(SubnetIds=subnet_ids)
ValidateSubnets(net, subnet_ids, vpc_id) ==
    IF \E i \in 1..Len(subnet_ids) : subnet_ids[i] \notin DOMAIN net.subnets THEN FALSE
    ELSE IF Cardinality(Described(net.subnets, subnet_ids)) # Len(subnet_ids) THEN FALSE
    ELSE \A s \in Described(net.subnets, subnet_ids) :
            net.subnets[s].VpcId = vpc_id /\ net.subnets[s].State = "available"

\* ValidateSecurityGroups without the comparison of the group's VPC
ValidateSecurityGroupsAnyVpc(net, group_ids, vpc_id) ==
    IF \E i \in 1..Len(group_ids) : group_ids[i] \notin DOMAIN net.groups THEN FALSE
    ELSE Cardinality(Described(net.groups, group_ids)) = Len(group_ids)

\* _validate_security_groups on the answer of describe_security_groups
ValidateSecurityGroups(net, group_ids, vpc_id) ==
    IF \E i \in 1..Len(group_ids) : group_ids[i] \notin DOMAIN net.groups THEN FALSE
    ELSE IF Cardinality(Described(net.groups, group_ids)) # Len(group_ids) THEN FALSE
    ELSE \A g \in Described(net.groups, group_ids) : net.groups[g].VpcId = vpc_id

\* MakeVpcConfig with SecurityGroupIds set whenever the argument is not None
MakeVpcConfigGroupsNotNone(subnet_ids, security_group_ids) ==
    [some |-> TRUE, SubnetIds |-> subnet_ids.v,
     hasSG |-> security_group_ids.some,
     SecurityGroupIds |-> security_group_ids.v]

\* The dict create_vpc_config returns
MakeVpcConfig(subnet_ids, security_group_ids) ==
    [some |-> TRUE, SubnetIds |-> subnet_ids.v,
     hasSG |-> TruthyList(security_group_ids),
     SecurityGroupIds |-> IF TruthyList(security_group_ids)
                          THEN security_group_ids.v ELSE <<>>]

\* create_vpc_config returns: deploy goes on to the role step
VpcReturn(newSteps) ==
    LET l == [loc EXCEPT !.vpc_config = MakeVpcConfig(args.subnet_ids, args.security_group_ids)]
    IN  /\ loc' = l
        /\ steps' = Append(newSteps, Ev("vpc", "ret", args, l))
        /\ IF entry = "deploy"
           THEN pc' = DeployNext("vpc") /\ outcome' = outcome
           ELSE pc' = "idle" /\ outcome' = Returned("", "")

DescribeVpcs ==
    /\ pc = "describe_vpcs"
    /\ calls' = Append(calls, Call("ec2:DescribeVpcs", args.vpc_id))
    /\ \E fault \in BOOLEAN :
         IF fault
         THEN /\ outcome' = OtherFault
              /\ pc' = "idle"
              /\ steps' = Append(steps, Ev("vpc", "call", args, loc))
         ELSE IF ~ValidateVpc(ec2, args.vpc_id)
         THEN /\ outcome' = Raised("ValueError", "Invalid VPC")
              /\ pc' = "idle"
              /\ steps' = Append(steps, Ev("vpc", "call", args, loc))
         ELSE /\ outcome' = outcome
              /\ pc' = "describe_subnets"
              /\ steps' = Append(steps, Ev("vpc", "call", args, loc))
    /\ UNCHANGED <<provider, entry, args, loc, pre, nops, peer>>

DescribeSubnets ==
    /\ pc = "describe_subnets"
    /\ calls' = Append(calls, Call("ec2:DescribeSubnets", args.vpc_id))
    /\ \E fault \in BOOLEAN :
         IF fault
         THEN /\ outcome' = OtherFault /\ pc' = "idle"
              /\ UNCHANGED <<loc, steps>>
         ELSE IF ~ValidateSubnets(ec2, args.subnet_ids.v, args.vpc_id)
         THEN /\ outcome' = Raised("ValueError", "Invalid subnets") /\ pc' = "idle"
              /\ UNCHANGED <<loc, steps>>
         ELSE IF TruthyList(args.security_group_ids)
         THEN /\ outcome' = outcome /\ pc' = "describe_security_groups"
              /\ UNCHANGED <<loc, steps>>
         ELSE VpcReturn(steps)
    /\ UNCHANGED <<provider, entry, args, pre, nops, peer>>

DescribeSecurityGroups ==
    /\ pc = "describe_security_groups"
    /\ calls' = Append(calls, Call("ec2:DescribeSecurityGroups", args.vpc_id))
    /\ \E fault \in BOOLEAN :
         IF fault
         THEN /\ outcome' = OtherFault /\ pc' = "idle"
              /\ UNCHANGED <<loc, steps>>
         ELSE IF ~ValidateSecurityGroups(ec2, args.security_group_ids.v, args.vpc_id)
         THEN /\ outcome' = Raised("ValueError", "Invalid security groups") /\ pc' = "idle"
              /\ UNCHANGED <<loc, steps>>
         ELSE VpcReturn(steps)
    /\ UNCHANGED <<provider, entry, args, pre, nops, peer>>

(***************************************************************************)
(* The identity service as the role manager uses it.                       *)
(***************************************************************************)
Min(a, b) == IF a < b THEN a ELSE b

\* The pages the provider can answer a listing with.  current is what the
\* listing holds now; l.seen and l.marker say what the earlier pages of the
\* same listing returned (nothing on the first call).  The continuation
\* marker is opaque to the program: the provider resumes either after the
\* entries it already returned, or at the position it had reached, counted
\* in what the listing holds now.  The order of a listing is the provider's.
Pages(current, l) ==
    LET byKey == current \ l.seen
        byPosition == {current \ skip : skip \in
                         {x \in SUBSET current :
                            Cardinality(x) = Min(l.marker, Cardinality(current))}}
        PagesOf(rem) ==
            LET k == Min(PageSize, Cardinality(rem))
            IN  {[page |-> sq, truncated |-> Cardinality(rem) > k] :
                    sq \in {q \in [1..k -> rem] :
                              \A i, j \in 1..k : i # j => q[i] # q[j]}}
    IN  UNION {PagesOf(rem) : rem \in {byKey} \cup byPosition}

\* The local variables after a page was received
WithPage(l, r) ==
    [l EXCEPT !.page = r.page, !.truncated = r.truncated,
              !.seen = l.seen \cup SeqToSet(r.page), !.marker = l.marker + Len(r.page)]

ClearPaging(l) == [l EXCEPT !.page = <<>>, !.truncated = FALSE, !.seen = {}, !.marker = 0]

\* AfterPage with a loop that asks for pages until it receives an empty one
AfterPageUntilEmpty(l, item, list, done) ==
    IF l.page # <<>> THEN item ELSE IF l.truncated \/ l.seen # {} THEN list ELSE done

\* Where a paging loop goes on: the next entry of the page, the next page
\* while IsTruncated, else the statement after the loop
AfterPage(l, item, list, done) ==
    IF l.page # <<>> THEN item ELSE IF l.truncated THEN list ELSE done

LoopLoc(l) == IF l.page = <<>> /\ ~l.truncated THEN ClearPaging(l) ELSE l

\* The provider's own faults, "" when the call succeeds
GetRoleErr(rs, name) == IF rs[name].exists THEN "" ELSE "NoSuchEntity"
CreateRoleErr(rs, name) == IF rs[name].exists THEN "EntityAlreadyExists" ELSE ""
DeleteRoleErr(rs, att, name) ==
    IF ~rs[name].exists THEN "NoSuchEntity"
    ELSE IF AttachedTo(att, name) # {} \/ rs[name].inline # {} THEN "DeleteConflict"
    ELSE ""
DetachErr(rs, att, name, arn) ==
    IF ~rs[name].exists \/ <<name, arn>> \notin att THEN "NoSuchEntity" ELSE ""
AttachErr(rs, ps, name, arn) ==
    IF ~rs[name].exists \/ ~ps[arn].exists THEN "NoSuchEntity" ELSE ""
CreatePolicyErr(ps, arn) == IF ps[arn].exists THEN "EntityAlreadyExists" ELSE ""
GetPolicyErr(ps, arn) == IF ps[arn].exists THEN "" ELSE "NoSuchEntity"
DeletePolicyErr(ps, att, arn) ==
    IF ~ps[arn].exists THEN "NoSuchEntity"
    ELSE IF RolesOf(att, arn) # {} THEN "DeleteConflict"
    ELSE ""

\* The answer of a call: the injected fault, else the provider's own
Answer(fault, err) == IF fault THEN "AccessDenied" ELSE err

\* A ClientError leaves the operation: every handler of the role manager
\* logs it and raises it again
Fail(code) ==
    /\ pc' = "idle"
    /\ outcome' = Raised("ClientError", code)

(***************************************************************************)
(* IAMRoleManager.create_or_update_role.                                   *)
(***************************************************************************)
\* AfterRoleExists with the force flag ignored: the role is always recreated
AfterRoleExistsAlwaysRecreate(role_exists, force_recreate) ==
    IF role_exists THEN "list_attached_role_policies" ELSE "create_role"

\* AfterRoleExists with the force flag ignored: the role is never recreated
AfterRoleExistsNeverRecreate(role_exists, force_recreate) ==
    IF ~role_exists THEN "create_role" ELSE "get_role_arn"

\* create_or_update_role after _role_exists returned (lines 359-371)
AfterRoleExists(role_exists, force_recreate) ==
    IF role_exists /\ force_recreate THEN "list_attached_role_policies"
    ELSE IF ~role_exists THEN "create_role"
    ELSE "get_role_arn"

\* GetRole with every fault of get_role taken for "the role is absent"
GetRoleAnyFaultIsAbsent ==
    /\ pc = "get_role"
    /\ calls' = Append(calls, Call("iam:GetRole", loc.role_name))
    /\ steps' = Append(steps, Ev("role", "call", args, loc))
    /\ \E fault \in BOOLEAN :
         LET err == Answer(fault, GetRoleErr(roles, loc.role_name))
         IN  /\ loc' = [loc EXCEPT !.role_exists = (err = "")]
             /\ pc' = AfterRoleExists(err = "", args.force_recreate_role)
             /\ outcome' = outcome
    /\ UNCHANGED <<provider, entry, args, pre, nops, peer>>

\* _role_exists (line 357): the first call of create_or_update_role
GetRole ==
    /\ pc = "get_role"
    /\ calls' = Append(calls, Call("iam:GetRole", loc.role_name))
    /\ steps' = Append(steps, Ev("role", "call", args, loc))
    /\ \E fault \in BOOLEAN :
         LET err == Answer(fault, GetRoleErr(roles, loc.role_name))
         IN  IF err \notin {"", "NoSuchEntity"}
             THEN Fail(err) /\ loc' = loc
             ELSE /\ loc' = [loc EXCEPT !.role_exists = (err = "")]
                  /\ pc' = AfterRoleExists(err = "", args.force_recreate_role)
                  /\ outcome' = outcome
    /\ UNCHANGED <<provider, entry, args, pre, nops, peer>>

\* _detach_all_policies_from_role: list_attached_role_policies, first page
\* (line 200) and further pages (line 211)
ListAttachedRolePolicies ==
    /\ pc = "list_attached_role_policies"
    /\ calls' = Append(calls, Call("iam:ListAttachedRolePolicies", loc.role_name))
    /\ \E fault \in BOOLEAN :
         LET err == Answer(fault, GetRoleErr(roles, loc.role_name))
         IN  IF err # ""
             THEN Fail(err) /\ loc' = loc
             ELSE \E r \in Pages(AttachedTo(attached, loc.role_name), loc) :
                    LET l == WithPage(loc, r)
                    IN  /\ loc' = LoopLoc(l)
                        /\ pc' = AfterPage(l, "detach_role_policy",
                                           "list_attached_role_policies",
                                           "list_role_policies")
                        /\ outcome' = outcome
    /\ UNCHANGED <<provider, entry, args, steps, pre, nops, peer>>

\* detach_role_policy for one entry of the page (lines 203, 217)
DetachRolePolicy ==
    /\ pc = "detach_role_policy"
    /\ calls' = Append(calls, Call("iam:DetachRolePolicy", Head(loc.page)))
    /\ \E fault \in BOOLEAN :
         LET err == Answer(fault, DetachErr(roles, attached, loc.role_name, Head(loc.page)))
             l == [loc EXCEPT !.page = Tail(loc.page)]
         IN  IF err # ""
             THEN Fail(err) /\ UNCHANGED <<loc, attached>>
             ELSE /\ attached' = attached \ {<<loc.role_name, Head(loc.page)>>}
                  /\ loc' = LoopLoc(l)
                  /\ pc' = AfterPage(l, "detach_role_policy",
                                     "list_attached_role_policies", "list_role_policies")
                  /\ outcome' = outcome
    /\ UNCHANGED <<roles, policies, functions, buckets, ec2, nextId,
                   entry, args, steps, pre, nops, peer>>

\* list_role_policies, first page (line 224) and further pages (line 235)
ListRolePolicies ==
    /\ pc = "list_role_policies"
    /\ calls' = Append(calls, Call("iam:ListRolePolicies", loc.role_name))
    /\ \E fault \in BOOLEAN :
         LET err == Answer(fault, GetRoleErr(roles, loc.role_name))
         IN  IF err # ""
             THEN Fail(err) /\ loc' = loc
             ELSE \E r \in Pages(roles[loc.role_name].inline, loc) :
                    LET l == WithPage(loc, r)
                    IN  /\ loc' = LoopLoc(l)
                        /\ pc' = AfterPage(l, "delete_role_policy", "list_role_policies",
                                           "delete_role")
                        /\ outcome' = outcome
    /\ UNCHANGED <<provider, entry, args, steps, pre, nops, peer>>

\* delete_role_policy for one entry of the page (lines 227, 241)
DeleteRolePolicy ==
    /\ pc = "delete_role_policy"
    /\ calls' = Append(calls, Call("iam:DeleteRolePolicy", Head(loc.page)))
    /\ \E fault \in BOOLEAN :
         LET err == Answer(fault,
                       IF roles[loc.role_name].exists
                          /\ Head(loc.page) \in roles[loc.role_name].inline
                       THEN "" ELSE "NoSuchEntity")
             l == [loc EXCEPT !.page = Tail(loc.page)]
         IN  IF err # ""
             THEN Fail(err) /\ UNCHANGED <<loc, roles>>
             ELSE /\ roles' = [roles EXCEPT ![loc.role_name].inline = @ \ {Head(loc.page)}]
                  /\ loc' = LoopLoc(l)
                  /\ pc' = AfterPage(l, "delete_role_policy", "list_role_policies",
                                     "delete_role")
                  /\ outcome' = outcome
    /\ UNCHANGED <<policies, attached, functions, buckets, ec2, nextId,
                   entry, args, steps, pre, nops, peer>>

\* _delete_role: delete_role (line 185), then role_exists = False (line 363)
DeleteRole ==
    /\ pc = "delete_role"
    /\ calls' = Append(calls, Call("iam:DeleteRole", loc.role_name))
    /\ \E fault \in BOOLEAN :
         LET err == Answer(fault, DeleteRoleErr(roles, attached, loc.role_name))
         IN  IF err # ""
             THEN Fail(err) /\ UNCHANGED <<loc, roles>>
             ELSE /\ roles' = [roles EXCEPT ![loc.role_name] = NoRole]
                  /\ loc' = [loc EXCEPT !.role_exists = FALSE]
                  /\ pc' = AfterRoleExists(FALSE, args.force_recreate_role)
                  /\ outcome' = outcome
    /\ UNCHANGED <<policies, attached, functions, buckets, ec2, nextId,
                   entry, args, steps, pre, nops, peer>>

\* The role and the policies as the provider creates them
NewRole(name, id, trust) ==
    [exists |-> TRUE, id |-> id, arn |-> RoleArn(name), trust |-> trust, inline |-> {}]
NewPolicy(id, kind, bucket) == [exists |-> TRUE, id |-> id, kind |-> kind, bucket |-> bucket]

\* _create_role: create_role (line 280)
CreateRole ==
    /\ pc = "create_role"
    /\ calls' = Append(calls, Call("iam:CreateRole", loc.role_name))
    /\ \E fault \in BOOLEAN :
         LET err == Answer(fault, CreateRoleErr(roles, loc.role_name))
         IN  IF err # ""
             THEN Fail(err) /\ UNCHANGED <<loc, roles, nextId>>
             ELSE /\ roles' = [roles EXCEPT ![loc.role_name] =
                                  NewRole(loc.role_name, nextId, LambdaExecutionTrustPolicy)]
                  /\ nextId' = nextId + 1
                  /\ loc' = [loc EXCEPT !.role_arn = RoleArn(loc.role_name)]
                  /\ pc' = "create_basic_policy"
                  /\ outcome' = outcome
    /\ UNCHANGED <<policies, attached, functions, buckets, ec2,
                   entry, args, steps, pre, nops, peer>>

\* CreateBasicPolicy with EntityAlreadyExists raised like any other fault
CreateBasicPolicyConflictRaises ==
    /\ pc = "create_basic_policy"
    /\ calls' = Append(calls, Call("iam:CreatePolicy", BasicPolicyName(loc.role_name)))
    /\ \E fault \in BOOLEAN :
         LET arn == PolicyArn(BasicPolicyName(loc.role_name))
             err == Answer(fault, CreatePolicyErr(policies, arn))
         IN  IF err # ""
             THEN Fail(err) /\ UNCHANGED <<loc, policies, nextId>>
             ELSE /\ policies' = [policies EXCEPT ![arn] = NewPolicy(nextId, "logs", "")]
                  /\ nextId' = nextId + 1
                  /\ loc' = [loc EXCEPT !.basic_policy_arn = arn]
                  /\ pc' = "attach_basic_policy"
                  /\ outcome' = outcome
    /\ UNCHANGED <<roles, attached, functions, buckets, ec2,
                   entry, args, steps, pre, nops, peer>>

\* _create_role: create_policy for the basic-execution policy (line 309);
\* EntityAlreadyExists is handled by attaching the existing policy
CreateBasicPolicy ==
    /\ pc = "create_basic_policy"
    /\ calls' = Append(calls, Call("iam:CreatePolicy", BasicPolicyName(loc.role_name)))
    /\ \E fault \in BOOLEAN :
         LET arn == PolicyArn(BasicPolicyName(loc.role_name))
             err == Answer(fault, CreatePolicyErr(policies, arn))
         IN  IF err = "EntityAlreadyExists"
             THEN /\ pc' = "get_account_id_basic"
                  /\ outcome' = outcome
                  /\ UNCHANGED <<loc, policies, nextId>>
             ELSE IF err # ""
             THEN Fail(err) /\ UNCHANGED <<loc, policies, nextId>>
             ELSE /\ policies' = [policies EXCEPT ![arn] = NewPolicy(nextId, "logs", "")]
                  /\ nextId' = nextId + 1
                  /\ loc' = [loc EXCEPT !.basic_policy_arn = arn]
                  /\ pc' = "attach_basic_policy"
                  /\ outcome' = outcome
    /\ UNCHANGED <<roles, attached, functions, buckets, ec2,
                   entry, args, steps, pre, nops, peer>>

\* _get_account_id: get_caller_identity (line 113), called from line 324
\* and from line 83
GetAccountId ==
    /\ pc \in {"get_account_id_basic", "get_account_id_s3"}
    /\ calls' = Append(calls, Call("sts:GetCallerIdentity", ""))
    /\ \E fault \in BOOLEAN :
         IF fault
         THEN Fail("AccessDenied") /\ loc' = loc
         ELSE /\ loc' = [loc EXCEPT !.account_id = AccountId]
              /\ pc' = IF pc = "get_account_id_basic"
                       THEN "attach_existing_basic_policy" ELSE "get_policy"
              /\ outcome' = outcome
    /\ UNCHANGED <<provider, entry, args, steps, pre, nops, peer>>

\* _create_role: attach_role_policy of the policy just created (line 316)
\* or of the policy that existed (line 326); then the settle delay, and
\* create_or_update_role goes on to _create_s3_access_policy
AttachBasicPolicy ==
    /\ pc \in {"attach_basic_policy", "attach_existing_basic_policy"}
    /\ \E fault \in BOOLEAN :
         LET arn == IF pc = "attach_basic_policy" THEN loc.basic_policy_arn
                    ELSE PolicyArnIn(loc.account_id, BasicPolicyName(loc.role_name))
             err == Answer(fault, AttachErr(roles, policies, loc.role_name, arn))
         IN  /\ calls' = Append(calls, Call("iam:AttachRolePolicy", arn))
             /\ IF err # ""
                THEN Fail(err) /\ UNCHANGED <<loc, attached>>
                ELSE /\ attached' = attached \cup {<<loc.role_name, arn>>}
                     /\ loc' = [loc EXCEPT !.basic_policy_arn = arn]
                     /\ pc' = "get_account_id_s3"
                     /\ outcome' = outcome
    /\ UNCHANGED <<roles, policies, functions, buckets, ec2, nextId,
                   entry, args, steps, pre, nops, peer>>

\* GetRoleArn followed by the basic-execution policy of _create_role
GetRoleArnThenBasicPolicy ==
    /\ pc = "get_role_arn"
    /\ calls' = Append(calls, Call("iam:GetRole", loc.role_name))
    /\ \E fault \in BOOLEAN :
         LET err == Answer(fault, GetRoleErr(roles, loc.role_name))
         IN  IF err # ""
             THEN Fail(err) /\ loc' = loc
             ELSE /\ loc' = [loc EXCEPT !.role_arn = roles[loc.role_name].arn]
                  /\ pc' = "create_basic_policy"
                  /\ outcome' = outcome
    /\ UNCHANGED <<provider, entry, args, steps, pre, nops, peer>>

\* create_or_update_role: the role is reused, get_role for its ARN (line 370)
GetRoleArn ==
    /\ pc = "get_role_arn"
    /\ calls' = Append(calls, Call("iam:GetRole", loc.role_name))
    /\ \E fault \in BOOLEAN :
         LET err == Answer(fault, GetRoleErr(roles, loc.role_name))
         IN  IF err # ""
             THEN Fail(err) /\ loc' = loc
             ELSE /\ loc' = [loc EXCEPT !.role_arn = roles[loc.role_name].arn]
                  /\ pc' = "get_account_id_s3"
                  /\ outcome' = outcome
    /\ UNCHANGED <<provider, entry, args, steps, pre, nops, peer>>

\* GetPolicy with the policy created whether one exists or not
GetPolicyNeverDeletes ==
    /\ pc = "get_policy"
    /\ \E fault \in BOOLEAN :
         LET arn == PolicyArnIn(loc.account_id, S3PolicyName(loc.role_name))
             err == Answer(fault, GetPolicyErr(policies, arn))
         IN  /\ calls' = Append(calls, Call("iam:GetPolicy", arn))
             /\ IF err \in {"", "NoSuchEntity"}
                THEN pc' = "create_s3_policy" /\ outcome' = outcome /\ loc' = loc
                ELSE Fail(err) /\ loc' = loc
    /\ UNCHANGED <<provider, entry, args, steps, pre, nops, peer>>

\* GetPolicy with a policy that exists kept and attached as it is
GetPolicyKeepsExisting ==
    /\ pc = "get_policy"
    /\ \E fault \in BOOLEAN :
         LET arn == PolicyArnIn(loc.account_id, S3PolicyName(loc.role_name))
             err == Answer(fault, GetPolicyErr(policies, arn))
         IN  /\ calls' = Append(calls, Call("iam:GetPolicy", arn))
             /\ IF err = "NoSuchEntity"
                THEN pc' = "create_s3_policy" /\ outcome' = outcome /\ loc' = loc
                ELSE IF err # ""
                THEN Fail(err) /\ loc' = loc
                ELSE /\ loc' = [loc EXCEPT !.policy_arn = arn]
                     /\ pc' = "attach_s3_policy"
                     /\ outcome' = outcome
    /\ UNCHANGED <<provider, entry, args, steps, pre, nops, peer>>

\* _create_s3_access_policy: get_policy (line 82); NoSuchEntity means the
\* policy is created right away, otherwise the old one is deleted first
GetPolicy ==
    /\ pc = "get_policy"
    /\ \E fault \in BOOLEAN :
         LET arn == PolicyArnIn(loc.account_id, S3PolicyName(loc.role_name))
             err == Answer(fault, GetPolicyErr(policies, arn))
         IN  /\ calls' = Append(calls, Call("iam:GetPolicy", arn))
             /\ IF err = "NoSuchEntity"
                THEN pc' = "create_s3_policy" /\ outcome' = outcome /\ loc' = loc
                ELSE IF err # ""
                THEN Fail(err) /\ loc' = loc
                ELSE /\ loc' = [loc EXCEPT !.policy_arn = arn]
                     /\ pc' = "list_entities_for_policy"
                     /\ outcome' = outcome
    /\ UNCHANGED <<provider, entry, args, steps, pre, nops, peer>>

\* _delete_policy runs inside the try block of the policy lookup (lines
\* 81-89): a NoSuchEntity raised while the old policy is detached and
\* deleted is swallowed there, and the new policy is created next
LookupSwallows(err) == err = "NoSuchEntity"

\* _detach_policy_from_all_entities: list_entities_for_policy, first page
\* (line 142) and further pages (line 156)
ListEntitiesForPolicy ==
    /\ pc = "list_entities_for_policy"
    /\ calls' = Append(calls, Call("iam:ListEntitiesForPolicy", loc.policy_arn))
    /\ \E fault \in BOOLEAN :
         LET err == Answer(fault, GetPolicyErr(policies, loc.policy_arn))
         IN  IF LookupSwallows(err)
             THEN pc' = "create_s3_policy" /\ outcome' = outcome /\ loc' = ClearPaging(loc)
             ELSE IF err # ""
             THEN Fail(err) /\ loc' = loc
             ELSE \E r \in Pages(RolesOf(attached, loc.policy_arn), loc) :
                    LET l == WithPage(loc, r)
                    IN  /\ loc' = LoopLoc(l)
                        /\ pc' = AfterPage(l, "detach_policy_from_role",
                                           "list_entities_for_policy", "delete_policy")
                        /\ outcome' = outcome
    /\ UNCHANGED <<provider, entry, args, steps, pre, nops, peer>>

\* detach_role_policy for one role of the page (lines 148, 163)
DetachPolicyFromRole ==
    /\ pc = "detach_policy_from_role"
    /\ calls' = Append(calls, Call("iam:DetachRolePolicy", Head(loc.page)))
    /\ \E fault \in BOOLEAN :
         LET err == Answer(fault, DetachErr(roles, attached, Head(loc.page), loc.policy_arn))
             l == [loc EXCEPT !.page = Tail(loc.page)]
         IN  IF LookupSwallows(err)
             THEN /\ pc' = "create_s3_policy" /\ outcome' = outcome
                  /\ loc' = ClearPaging(loc) /\ attached' = attached
             ELSE IF err # ""
             THEN Fail(err) /\ UNCHANGED <<loc, attached>>
             ELSE /\ attached' = attached \ {<<Head(loc.page), loc.policy_arn>>}
                  /\ loc' = LoopLoc(l)
                  /\ pc' = AfterPage(l, "detach_policy_from_role",
                                     "list_entities_for_policy", "delete_policy")
                  /\ outcome' = outcome
    /\ UNCHANGED <<roles, policies, functions, buckets, ec2, nextId,
                   entry, args, steps, pre, nops, peer>>

\* _delete_policy: delete_policy (line 127)
DeletePolicy ==
    /\ pc = "delete_policy"
    /\ calls' = Append(calls, Call("iam:DeletePolicy", loc.policy_arn))
    /\ \E fault \in BOOLEAN :
         LET err == Answer(fault, DeletePolicyErr(policies, attached, loc.policy_arn))
         IN  IF LookupSwallows(err)
             THEN pc' = "create_s3_policy" /\ outcome' = outcome /\ policies' = policies
             ELSE IF err # ""
             THEN Fail(err) /\ UNCHANGED policies
             ELSE /\ policies' = [policies EXCEPT ![loc.policy_arn] = NoPolicy]
                  /\ pc' = "create_s3_policy"
                  /\ outcome' = outcome
    /\ UNCHANGED <<roles, attached, functions, buckets, ec2, nextId,
                   entry, args, loc, steps, pre, nops, peer>>

\* _create_s3_access_policy: create_policy scoped to s3_bucket (line 92)
CreateS3Policy ==
    /\ pc = "create_s3_policy"
    /\ calls' = Append(calls, Call("iam:CreatePolicy", S3PolicyName(loc.role_name)))
    /\ \E fault \in BOOLEAN :
         LET arn == PolicyArn(S3PolicyName(loc.role_name))
             err == Answer(fault, CreatePolicyErr(policies, arn))
         IN  IF err # ""
             THEN Fail(err) /\ UNCHANGED <<loc, policies, nextId>>
             ELSE /\ policies' = [policies EXCEPT ![arn] =
                                     NewPolicy(nextId, "s3", args.s3_bucket)]
                  /\ nextId' = nextId + 1
                  /\ loc' = [loc EXCEPT !.policy_arn = arn]
                  /\ pc' = "attach_s3_policy"
                  /\ outcome' = outcome
    /\ UNCHANGED <<roles, attached, functions, buckets, ec2,
                   entry, args, steps, pre, nops, peer>>

\* create_or_update_role: attach_role_policy of the bucket policy (line 377)
\* and return role_arn (line 383); deploy goes on to the function step
AttachS3Policy ==
    /\ pc = "attach_s3_policy"
    /\ calls' = Append(calls, Call("iam:AttachRolePolicy", loc.policy_arn))
    /\ \E fault \in BOOLEAN :
         LET err == Answer(fault, AttachErr(roles, policies, loc.role_name, loc.policy_arn))
         IN  IF err # ""
             THEN Fail(err) /\ UNCHANGED <<attached, steps>>
             ELSE /\ attached' = attached \cup {<<loc.role_name, loc.policy_arn>>}
                  /\ steps' = Append(steps, Ev("role", "ret", args, loc))
                  /\ IF entry = "deploy"
                     THEN pc' = DeployNext("role") /\ outcome' = outcome
                     ELSE pc' = "idle" /\ outcome' = Returned("", loc.role_arn)
    /\ UNCHANGED <<roles, policies, functions, buckets, ec2, nextId,
                   entry, args, loc, pre, nops, peer>>

(***************************************************************************)
(* LambdaFunctionDeployer.deploy_function.                                 *)
(***************************************************************************)
\* CreateFunctionErr of a provider that lets a second create through
CreateFunctionErrNoConflict(fs, name) == ""

\* The function service's own faults.  A function that is being created or
\* updated (busy) refuses a further update until the provider has finished.
GetFunctionErr(fs, name) == IF fs[name].exists THEN "" ELSE "ResourceNotFoundException"
CreateFunctionErr(fs, name) == IF fs[name].exists THEN "ResourceConflictException" ELSE ""
UpdateFunctionErr(fs, name) ==
    IF ~fs[name].exists THEN "ResourceNotFoundException"
    ELSE IF fs[name].busy THEN "ResourceConflictException"
    ELSE ""

\* The function service refuses code without an image URI (Code.ImageUri,
\* lines 80-82 and 117-120)
ImageErr(image_uri, err) == IF image_uri = "" THEN "InvalidParameterValueException" ELSE err

\* The provider finishes creating or updating a function
FunctionSettles ==
    /\ \E f \in FunctionNames :
         /\ functions[f].exists /\ functions[f].busy
         /\ functions' = [functions EXCEPT ![f].busy = FALSE]
    /\ UNCHANGED <<roles, policies, attached, buckets, ec2, nextId,
                   pc, entry, args, loc, outcome, steps, calls, pre, nops, peer>>

\* GetFunction with the function created whether it exists or not
GetFunctionAlwaysCreates ==
    /\ pc = "get_function"
    /\ calls' = Append(calls, Call("lambda:GetFunction", args.function_name))
    /\ steps' = Append(steps, Ev("function", "call", args, loc))
    /\ \E fault \in BOOLEAN :
         LET err == Answer(fault, GetFunctionErr(functions, args.function_name))
         IN  IF err \notin {"", "ResourceNotFoundException"}
             THEN Fail(err) /\ loc' = loc
             ELSE /\ loc' = [loc EXCEPT !.function_exists = (err = "")]
                  /\ pc' = "create_function"
                  /\ outcome' = outcome
    /\ UNCHANGED <<provider, entry, args, pre, nops, peer>>

\* _function_exists (line 209): the first call of deploy_function
GetFunction ==
    /\ pc = "get_function"
    /\ calls' = Append(calls, Call("lambda:GetFunction", args.function_name))
    /\ steps' = Append(steps, Ev("function", "call", args, loc))
    /\ \E fault \in BOOLEAN :
         LET err == Answer(fault, GetFunctionErr(functions, args.function_name))
         IN  IF err \notin {"", "ResourceNotFoundException"}
             THEN Fail(err) /\ loc' = loc
             ELSE /\ loc' = [loc EXCEPT !.function_exists = (err = "")]
                  /\ pc' = IF err = "" THEN "update_function_code" ELSE "create_function"
                  /\ outcome' = outcome
    /\ UNCHANGED <<provider, entry, args, pre, nops, peer>>

\* _create_function: create_function (lines 76-92)
CreateFunction ==
    /\ pc = "create_function"
    /\ calls' = Append(calls, Call("lambda:CreateFunction", args.function_name))
    /\ \E fault \in BOOLEAN :
         LET err == Answer(fault, ImageErr(args.ecr_image_uri,
                                  CreateFunctionErr(functions, args.function_name)))
         IN  IF err # ""
             THEN Fail(err) /\ UNCHANGED <<loc, functions>>
             ELSE /\ functions' = [functions EXCEPT ![args.function_name] =
                       [exists |-> TRUE, arn |-> FunctionArn(args.function_name),
                        image |-> args.ecr_image_uri, role |-> loc.role_arn,
                        memory |-> args.memory_size, timeout |-> args.timeout,
                        vpc |-> loc.vpc_config, env |-> {}, busy |-> TRUE]]
                  /\ loc' = [loc EXCEPT !.function_arn = FunctionArn(args.function_name)]
                  /\ pc' = "wait_function_active"
                  /\ outcome' = outcome
    /\ UNCHANGED <<roles, policies, attached, buckets, ec2, nextId,
                   entry, args, steps, pre, nops, peer>>

\* _update_function_code: update_function_code (line 117)
UpdateFunctionCode ==
    /\ pc = "update_function_code"
    /\ calls' = Append(calls, Call("lambda:UpdateFunctionCode", args.function_name))
    /\ \E fault \in BOOLEAN :
         LET err == Answer(fault, ImageErr(args.ecr_image_uri,
                                  UpdateFunctionErr(functions, args.function_name)))
         IN  IF err # ""
             THEN Fail(err) /\ UNCHANGED <<loc, functions>>
             ELSE /\ functions' = [functions EXCEPT
                                     ![args.function_name].image = args.ecr_image_uri,
                                     ![args.function_name].busy = TRUE]
                  /\ loc' = [loc EXCEPT !.function_arn = functions[args.function_name].arn]
                  /\ pc' = "wait_code_updated"
                  /\ outcome' = outcome
    /\ UNCHANGED <<roles, policies, attached, buckets, ec2, nextId,
                   entry, args, steps, pre, nops, peer>>

\* UpdateFunctionConfiguration with the image the function had before put
\* back when the update is refused
UpdateFunctionConfigurationRestores ==
    /\ pc = "update_function_configuration"
    /\ calls' = Append(calls, Call("lambda:UpdateFunctionConfiguration", args.function_name))
    /\ \E fault \in BOOLEAN :
         LET err == Answer(fault, UpdateFunctionErr(functions, args.function_name))
         IN  IF err # ""
             THEN /\ Fail(err) /\ loc' = loc
                  /\ functions' = [functions EXCEPT ![args.function_name].image =
                                      pre.functions[args.function_name].image]
             ELSE /\ functions' = [functions EXCEPT
                       ![args.function_name].role = loc.role_arn,
                       ![args.function_name].memory = args.memory_size,
                       ![args.function_name].timeout = args.timeout,
                       ![args.function_name].vpc =
                           IF loc.vpc_config.some THEN loc.vpc_config ELSE @,
                       ![args.function_name].busy = TRUE]
                  /\ loc' = [loc EXCEPT !.function_arn = functions[args.function_name].arn]
                  /\ pc' = "wait_configuration_updated"
                  /\ outcome' = outcome
    /\ UNCHANGED <<roles, policies, attached, buckets, ec2, nextId,
                   entry, args, steps, pre, nops, peer>>

\* UpdateFunctionConfiguration with the VpcConfig field always sent
UpdateFunctionConfigurationSendsVpc ==
    /\ pc = "update_function_configuration"
    /\ calls' = Append(calls, Call("lambda:UpdateFunctionConfiguration", args.function_name))
    /\ \E fault \in BOOLEAN :
         LET err == Answer(fault, UpdateFunctionErr(functions, args.function_name))
         IN  IF err # ""
             THEN Fail(err) /\ UNCHANGED <<loc, functions>>
             ELSE /\ functions' = [functions EXCEPT
                       ![args.function_name].role = loc.role_arn,
                       ![args.function_name].memory = args.memory_size,
                       ![args.function_name].timeout = args.timeout,
                       ![args.function_name].vpc = loc.vpc_config,
                       ![args.function_name].busy = TRUE]
                  /\ loc' = [loc EXCEPT !.function_arn = functions[args.function_name].arn]
                  /\ pc' = "wait_configuration_updated"
                  /\ outcome' = outcome
    /\ UNCHANGED <<roles, policies, attached, buckets, ec2, nextId,
                   entry, args, steps, pre, nops, peer>>

\* _update_function_configuration: update_function_configuration (lines
\* 157-169); VpcConfig is sent only when vpc_config is given
UpdateFunctionConfiguration ==
    /\ pc = "update_function_configuration"
    /\ calls' = Append(calls, Call("lambda:UpdateFunctionConfiguration", args.function_name))
    /\ \E fault \in BOOLEAN :
         LET err == Answer(fault, UpdateFunctionErr(functions, args.function_name))
         IN  IF err # ""
             THEN Fail(err) /\ UNCHANGED <<loc, functions>>
             ELSE /\ functions' = [functions EXCEPT
                       ![args.function_name].role = loc.role_arn,
                       ![args.function_name].memory = args.memory_size,
                       ![args.function_name].timeout = args.timeout,
                       ![args.function_name].vpc =
                           IF loc.vpc_config.some THEN loc.vpc_config ELSE @,
                       ![args.function_name].busy = TRUE]
                  /\ loc' = [loc EXCEPT !.function_arn = functions[args.function_name].arn]
                  /\ pc' = "wait_configuration_updated"
                  /\ outcome' = outcome
    /\ UNCHANGED <<roles, policies, attached, buckets, ec2, nextId,
                   entry, args, steps, pre, nops, peer>>

\* WaitReturns without the wait: the call returns at once
WaitReturnsAtOnce(next) ==
    /\ \E fault \in BOOLEAN :
         IF fault
         THEN /\ pc' = "idle"
              /\ outcome' = Raised("WaiterError", "Waiter failed")
         ELSE /\ pc' = next
              /\ outcome' = outcome

\* The waiter returns once the provider reports the function ready; a
\* waiter that gives up raises
WaitReturns(next) ==
    /\ \E fault \in BOOLEAN :
         IF fault
         THEN /\ pc' = "idle"
              /\ outcome' = Raised("WaiterError", "Waiter failed")
         ELSE /\ functions[args.function_name].exists
              /\ ~functions[args.function_name].busy
              /\ pc' = next
              /\ outcome' = outcome

\* _update_function_code: wait for function_updated (lines 126-127)
WaitCodeUpdated ==
    /\ pc = "wait_code_updated"
    /\ WaitReturns("update_function_configuration")
    /\ UNCHANGED <<provider, entry, args, loc, steps, calls, pre, nops, peer>>

\* The wait after the last mutating call, then deploy_function returns
\* function_arn (line 241): deploy goes on to the storage step
WaitThenReturn ==
    /\ \E fault \in BOOLEAN :
         IF fault
         THEN /\ pc' = "idle"
              /\ outcome' = Raised("WaiterError", "Waiter failed")
              /\ steps' = steps
         ELSE /\ functions[args.function_name].exists
              /\ ~functions[args.function_name].busy
              /\ steps' = Append(steps, Ev("function", "ret", args, loc))
              /\ IF entry = "deploy"
                 THEN pc' = DeployNext("function") /\ outcome' = outcome
                 ELSE pc' = "idle" /\ outcome' = Returned(loc.function_arn, "")
    /\ UNCHANGED <<provider, entry, args, loc, calls, pre, nops, peer>>

\* _create_function: wait for function_active (lines 96-97)
WaitFunctionActive ==
    /\ pc = "wait_function_active"
    /\ WaitThenReturn

\* _update_function_configuration: wait for function_updated (lines 173-174)
WaitConfigurationUpdated ==
    /\ pc = "wait_configuration_updated"
    /\ WaitThenReturn

(***************************************************************************)
(* S3AccessManager.configure_s3_access.                                    *)
(***************************************************************************)
\* UpdatedEnv with the variables the function had dropped
UpdatedEnvReplaced(current_env, s3_bucket) == {<<"S3_BUCKET", s3_bucket>>}

\* updated_env = current_env.copy(); updated_env['S3_BUCKET'] = s3_bucket
UpdatedEnv(current_env, s3_bucket) ==
    {kv \in current_env : kv[1] # "S3_BUCKET"} \cup {<<"S3_BUCKET", s3_bucket>>}

\* HeadBucket with a clean-up: the function is deleted when the bucket
\* turns out to be missing
HeadBucketRollback ==
    /\ pc = "head_bucket"
    /\ calls' = Append(calls, Call("s3:HeadBucket", args.s3_bucket))
    /\ steps' = Append(steps, Ev("storage", "call", args, loc))
    /\ \E fault \in BOOLEAN :
         LET code == IF fault THEN "AccessDenied" ELSE buckets[args.s3_bucket]
         IN  IF code = "200"
             THEN /\ pc' = "get_function_configuration" /\ outcome' = outcome
                  /\ functions' = functions
             ELSE IF code \in {"404", "403"}
             THEN /\ pc' = "idle"
                  /\ outcome' = Raised("ValueError",
                                       "S3 bucket does not exist or is not accessible")
                  /\ functions' = [functions EXCEPT ![args.function_name] = NoFunction]
             ELSE Fail(code) /\ functions' = functions
    /\ UNCHANGED <<roles, policies, attached, buckets, ec2, nextId,
                   entry, args, loc, pre, nops, peer>>

\* HeadBucket with a forbidden bucket (403) taken for one that is there
HeadBucketForbiddenIsPresent ==
    /\ pc = "head_bucket"
    /\ calls' = Append(calls, Call("s3:HeadBucket", args.s3_bucket))
    /\ steps' = Append(steps, Ev("storage", "call", args, loc))
    /\ \E fault \in BOOLEAN :
         LET code == IF fault THEN "AccessDenied" ELSE buckets[args.s3_bucket]
         IN  IF code \in {"200", "403"}
             THEN pc' = "get_function_configuration" /\ outcome' = outcome
             ELSE IF code = "404"
             THEN /\ pc' = "idle"
                  /\ outcome' = Raised("ValueError",
                                       "S3 bucket does not exist or is not accessible")
             ELSE Fail(code)
    /\ UNCHANGED <<provider, entry, args, loc, pre, nops, peer>>

\* _bucket_exists: head_bucket (line 45); 404 and 403 mean the bucket is
\* not there, which configure_s3_access turns into a ValueError (line 148)
HeadBucket ==
    /\ pc = "head_bucket"
    /\ calls' = Append(calls, Call("s3:HeadBucket", args.s3_bucket))
    /\ steps' = Append(steps, Ev("storage", "call", args, loc))
    /\ \E fault \in BOOLEAN :
         LET code == IF fault THEN "AccessDenied" ELSE buckets[args.s3_bucket]
         IN  IF code = "200"
             THEN pc' = "get_function_configuration" /\ outcome' = outcome
             ELSE IF code \in {"404", "403"}
             THEN /\ pc' = "idle"
                  /\ outcome' = Raised("ValueError",
                                       "S3 bucket does not exist or is not accessible")
             ELSE Fail(code)
    /\ UNCHANGED <<provider, entry, args, loc, pre, nops, peer>>

\* _update_lambda_environment: get_function_configuration (line 69)
GetFunctionConfiguration ==
    /\ pc = "get_function_configuration"
    /\ calls' = Append(calls, Call("lambda:GetFunctionConfiguration", args.function_name))
    /\ \E fault \in BOOLEAN :
         LET err == Answer(fault, GetFunctionErr(functions, args.function_name))
         IN  IF err # ""
             THEN Fail(err) /\ loc' = loc
             ELSE /\ loc' = [loc EXCEPT !.current_env = functions[args.function_name].env]
                  /\ pc' = "update_environment"
                  /\ outcome' = outcome
    /\ UNCHANGED <<provider, entry, args, steps, pre, nops, peer>>

\* UpdateEnvironment with a request that also carries the default memory
\* size and timeout and an empty VpcConfig
UpdateEnvironmentResetsConfiguration ==
    /\ pc = "update_environment"
    /\ calls' = Append(calls, Call("lambda:UpdateFunctionConfiguration", args.function_name))
    /\ \E fault \in BOOLEAN :
         LET err == Answer(fault, UpdateFunctionErr(functions, args.function_name))
         IN  IF err # ""
             THEN Fail(err) /\ UNCHANGED functions
             ELSE /\ functions' = [functions EXCEPT
                       ![args.function_name].env = UpdatedEnv(loc.current_env, args.s3_bucket),
                       ![args.function_name].memory = DefaultMemorySize,
                       ![args.function_name].timeout = DefaultTimeout,
                       ![args.function_name].vpc = NoVpcConfig,
                       ![args.function_name].busy = TRUE]
                  /\ pc' = "wait_environment_updated"
                  /\ outcome' = outcome
    /\ UNCHANGED <<roles, policies, attached, buckets, ec2, nextId,
                   entry, args, loc, steps, pre, nops, peer>>

\* _update_lambda_environment: update_function_configuration with the
\* Environment only (line 79)
UpdateEnvironment ==
    /\ pc = "update_environment"
    /\ calls' = Append(calls, Call("lambda:UpdateFunctionConfiguration", args.function_name))
    /\ \E fault \in BOOLEAN :
         LET err == Answer(fault, UpdateFunctionErr(functions, args.function_name))
         IN  IF err # ""
             THEN Fail(err) /\ UNCHANGED functions
             ELSE /\ functions' = [functions EXCEPT
                       ![args.function_name].env = UpdatedEnv(loc.current_env, args.s3_bucket),
                       ![args.function_name].busy = TRUE]
                  /\ pc' = "wait_environment_updated"
                  /\ outcome' = outcome
    /\ UNCHANGED <<roles, policies, attached, buckets, ec2, nextId,
                   entry, args, loc, steps, pre, nops, peer>>

\* DeployResult with the two ARNs exchanged
DeployResultSwapped(function_arn, role_arn) == Returned(role_arn, function_arn)

\* The record deploy returns (lines 132-135)
DeployResult(function_arn, role_arn) == Returned(function_arn, role_arn)

\* _update_lambda_environment: wait for function_updated (lines 89-90);
\* configure_s3_access returns True and deploy returns its record
WaitEnvironmentUpdated ==
    /\ pc = "wait_environment_updated"
    /\ \E fault \in BOOLEAN :
         IF fault
         THEN /\ pc' = "idle"
              /\ outcome' = Raised("WaiterError", "Waiter failed")
              /\ steps' = steps
         ELSE /\ functions[args.function_name].exists
              /\ ~functions[args.function_name].busy
              /\ pc' = "idle"
              /\ steps' = Append(steps, Ev("storage", "ret", args, loc))
              /\ outcome' = IF entry = "deploy"
                            THEN DeployResult(loc.function_arn, loc.role_arn)
                            ELSE Returned("", "")
    /\ UNCHANGED <<provider, entry, args, loc, calls, pre, nops, peer>>

(***************************************************************************)
(* The arguments the operations are called with.                           *)
(***************************************************************************)
OptionalLists(lists) == {NoneList, SomeList(<<>>)} \cup {SomeList(l) : l \in lists}

AllDeployArgs ==
    [ecr_image_uri : {""} \cup ImageUris, function_name : {""} \cup FunctionNames,
     s3_bucket : {""} \cup BucketNames, role_name : {None, ""} \cup GivenRoleNames,
     memory_size : {DefaultMemorySize}, timeout : {DefaultTimeout},
     vpc_id : {None, ""} \cup VpcIds,
     subnet_ids : OptionalLists(SubnetIdLists),
     security_group_ids : OptionalLists(GroupIdLists),
     force_recreate_role : BOOLEAN]

\* The calls of deploy that are explored: those in which at most one group
\* of arguments (the required ones, the network, the role) departs from a
\* plain call.
PlainRequired(a) == a.ecr_image_uri = "img1" /\ a.function_name = "f" /\ a.s3_bucket = "b1"
PlainNetwork(a) ==
    \/ a.vpc_id = None /\ a.subnet_ids = NoneList /\ a.security_group_ids = NoneList
    \/ a.vpc_id = "vpc-1" /\ a.subnet_ids = SomeList(<<"s1", "s2">>)
         /\ a.security_group_ids = SomeList(<<"g1">>)
NetworkOff(a) ==
    /\ ~Truthy(a.vpc_id)
    /\ a.subnet_ids \in {NoneList, SomeList(<<"s1">>), SomeList(<<"s9">>)}
    /\ a.security_group_ids \in {NoneList, SomeList(<<"g9">>)}
PlainRole(a) == a.role_name = None /\ ~a.force_recreate_role

DeployArgs ==
    {a \in AllDeployArgs :
        \/ PlainNetwork(a) /\ PlainRole(a)
        \/ PlainRequired(a) /\ PlainRole(a) /\ (Truthy(a.vpc_id) \/ NetworkOff(a))
        \/ PlainRequired(a) /\ PlainNetwork(a)}

\* create_or_update_role is entered: its arguments and its first call
StartCreateOrUpdateRole(role_name, s3_bucket, force_recreate) ==
    /\ pc = "idle"
    /\ nops' = nops + 1
    /\ entry' = "create_or_update_role"
    /\ args' = [NoArgs EXCEPT !.role_name = role_name, !.s3_bucket = s3_bucket,
                              !.force_recreate_role = force_recreate]
    /\ loc' = [NoLoc EXCEPT !.role_name = role_name]
    /\ pre' = Snapshot
    /\ calls' = <<>>
    /\ steps' = <<>>
    /\ outcome' = Running
    /\ pc' = "get_role"
    /\ UNCHANGED <<provider, peer>>

\* A direct call of IAMRoleManager.create_or_update_role
CallCreateOrUpdateRole(role_name, s3_bucket, force_recreate) ==
    /\ nops < MaxOps
    /\ StartCreateOrUpdateRole(role_name, s3_bucket, force_recreate)

\* A call of create_or_update_role by a caller that calls it again and
\* again as long as every call so far has returned
CallRoleInSequence(role_name, s3_bucket, force_recreate) ==
    /\ nops < MaxRoleCalls
    /\ outcome.status \in {"none", "returned"}
    /\ StartCreateOrUpdateRole(role_name, s3_bucket, force_recreate)

(***************************************************************************)
(* The specifications.                                                     *)
(***************************************************************************)
VpcActions == DescribeVpcs \/ DescribeSubnets \/ DescribeSecurityGroups

RoleActions ==
    \/ GetRole
    \/ ListAttachedRolePolicies
    \/ DetachRolePolicy
    \/ ListRolePolicies
    \/ DeleteRolePolicy
    \/ DeleteRole
    \/ CreateRole
    \/ CreateBasicPolicy
    \/ GetAccountId
    \/ AttachBasicPolicy
    \/ GetRoleArn
    \/ GetPolicy
    \/ ListEntitiesForPolicy
    \/ DetachPolicyFromRole
    \/ DeletePolicy
    \/ CreateS3Policy
    \/ AttachS3Policy

FunctionActions ==
    \/ GetFunction
    \/ CreateFunction
    \/ WaitFunctionActive
    \/ UpdateFunctionCode
    \/ WaitCodeUpdated
    \/ UpdateFunctionConfiguration
    \/ WaitConfigurationUpdated
    \/ FunctionSettles

StorageActions ==
    \/ HeadBucket
    \/ GetFunctionConfiguration
    \/ UpdateEnvironment
    \/ WaitEnvironmentUpdated

\* The accounts a deploy starts from: a clean one, and one in which the
\* default role exists with a foreign managed policy, an inline policy and
\* a bucket policy that another role shares
DeployIamEnvs ==
    LET t == DefaultRoleName("f")
        E(ex, att, inl, s3b, basicEx, otherAtt) ==
            [target |-> t, ex |-> ex, att |-> att, inl |-> inl, s3b |-> s3b,
             basicEx |-> basicEx, otherAtt |-> otherAtt]
    IN  {E(FALSE, {}, {}, "", FALSE, FALSE),
         E(TRUE, {PolicyArn(S3PolicyName(t)), ForeignPolicyArn}, {"inline-1"},
           "b2", TRUE, TRUE)}

\* Spec: deploys, each from start to end
Init == InitProvider(DeployIamEnvs, {NoFunction, OldFunction(TRUE)}) /\ InitProgram

Next ==
    \/ \E a \in DeployArgs : Deploy(a)
    \/ VpcActions
    \/ RoleActions
    \/ FunctionActions
    \/ StorageActions

Spec == Init /\ [][Next]_vars

\* SpecRole: direct calls of create_or_update_role on any account
RoleIamEnvs == IamEnvs(GivenRoleNames, {{}, {"inline-1"}, {"inline-1", "inline-2"}}, OkBuckets)

InitRole == InitProvider(RoleIamEnvs, {NoFunction}) /\ InitProgram

NextRole ==
    \/ \E r \in OwnRoles, b \in OkBuckets, force \in BOOLEAN :
          CallCreateOrUpdateRole(r, b, force)
    \/ RoleActions

SpecRole == InitRole /\ [][NextRole]_vars

\* SpecRoleSeq: sequences of calls of create_or_update_role on one role
\* name, with any bucket and any force flag, starting from an account
\* without the role or from one in which the role exists with a bucket
\* policy that another role shares
SeqIamEnvs ==
    {e \in IamEnvs(GivenRoleNames, {{}, {"inline-1"}}, {"b2"}) :
        \/ ~e.ex /\ e.s3b = "" /\ ~e.basicEx
        \/ e.ex /\ e.inl = {"inline-1"} /\ e.otherAtt /\ e.basicEx
             /\ PolicyArn(S3PolicyName(e.target)) \in e.att}

InitRoleSeq == InitProvider(SeqIamEnvs, {NoFunction}) /\ InitProgram

NextRoleSeq ==
    \/ \E r \in GivenRoleNames, b \in OkBuckets, force \in BOOLEAN :
          CallRoleInSequence(r, b, force)
    \/ RoleActions

SpecRoleSeq == InitRoleSeq /\ [][NextRoleSeq]_vars

\* A direct call of LambdaFunctionDeployer.deploy_function
CallDeployFunction(function_name, ecr_image_uri, role_arn, memory_size, vpc_config) ==
    /\ pc = "idle"
    /\ nops < MaxFunctionCalls
    /\ nops' = nops + 1
    /\ entry' = "deploy_function"
    /\ args' = [NoArgs EXCEPT !.function_name = function_name,
                              !.ecr_image_uri = ecr_image_uri,
                              !.memory_size = memory_size]
    /\ loc' = [NoLoc EXCEPT !.role_arn = role_arn, !.vpc_config = vpc_config]
    /\ pre' = Snapshot
    /\ calls' = <<>>
    /\ steps' = <<>>
    /\ outcome' = Running
    /\ pc' = "get_function"
    /\ UNCHANGED <<provider, peer>>

\* SpecFunction: sequences of direct calls of deploy_function on one
\* function name, with either image, memory size and network attachment
InitFunction ==
    /\ InitProvider({e \in DeployIamEnvs : ~e.ex}, {NoFunction, OldFunction(TRUE)})
    /\ InitProgram

NextFunction ==
    \/ \E f \in FunctionNames, image \in {"img1", "img2"},
          memory_size \in {DefaultMemorySize, 512},
          vpc_config \in {NoVpcConfig, MakeVpcConfig(SomeList(<<"s1">>), NoneList)} :
          CallDeployFunction(f, image, RoleArn("r"), memory_size, vpc_config)
    \/ FunctionActions

SpecFunction == InitFunction /\ [][NextFunction]_vars

\* A direct call of VPCConfigurator.create_vpc_config
CallCreateVpcConfig(vpc_id, subnet_ids, security_group_ids) ==
    /\ pc = "idle"
    /\ nops < MaxOps
    /\ nops' = nops + 1
    /\ entry' = "create_vpc_config"
    /\ args' = [NoArgs EXCEPT !.vpc_id = vpc_id, !.subnet_ids = SomeList(subnet_ids),
                              !.security_group_ids = security_group_ids]
    /\ loc' = NoLoc
    /\ pre' = Snapshot
    /\ calls' = <<>>
    /\ steps' = <<>>
    /\ outcome' = Running
    /\ pc' = "describe_vpcs"
    /\ UNCHANGED <<provider, peer>>

\* SpecVpc: direct calls of create_vpc_config with every VPC, every list
\* of subnets and every optional list of security groups
InitVpc == InitProvider({e \in DeployIamEnvs : ~e.ex}, {NoFunction}) /\ InitProgram

NextVpc ==
    \/ \E v \in VpcIds, sn \in SubnetIdLists, sg \in OptionalLists(GroupIdLists) :
          CallCreateVpcConfig(v, sn, sg)
    \/ VpcActions

SpecVpc == InitVpc /\ [][NextVpc]_vars

\* A direct call of S3AccessManager.configure_s3_access
CallConfigureS3Access(function_name, s3_bucket) ==
    /\ pc = "idle"
    /\ nops < MaxOps
    /\ nops' = nops + 1
    /\ entry' = "configure_s3_access"
    /\ args' = [NoArgs EXCEPT !.function_name = function_name, !.s3_bucket = s3_bucket]
    /\ loc' = NoLoc
    /\ pre' = Snapshot
    /\ calls' = <<>>
    /\ steps' = <<>>
    /\ outcome' = Running
    /\ pc' = "head_bucket"
    /\ UNCHANGED <<provider, peer>>

\* The environment maps a function can have when configure_s3_access is called
EnvMaps ==
    {{},
     {<<"LOG_LEVEL", "debug">>},
     {<<"S3_BUCKET", "b0">>},
     {<<"LOG_LEVEL", "debug">>, <<"S3_BUCKET", "b1">>},
     {<<"LOG_LEVEL", "debug">>, <<"MODE", "batch">>, <<"S3_BUCKET", "b0">>}}

\* SpecStorage: direct calls of configure_s3_access with every bucket, on
\* a function with any of the environment maps or on a missing function
InitStorage ==
    /\ InitProvider({e \in DeployIamEnvs : ~e.ex},
                    {NoFunction} \cup {[OldFunction(FALSE) EXCEPT !.env = e] : e \in EnvMaps})
    /\ InitProgram

NextStorage ==
    \/ \E f \in FunctionNames, b \in BucketNames : CallConfigureS3Access(f, b)
    \/ StorageActions
    \/ FunctionSettles

SpecStorage == InitStorage /\ [][NextStorage]_vars

\* The arguments deploy is run twice with: a plain call without or with a
\* network, the default or a given role name, the force flag off or on
DeployTwiceArgs ==
    {a \in DeployArgs : PlainRequired(a) /\ PlainNetwork(a) /\ a.role_name \in {None, "r"}}

NextDeployTwice ==
    \/ \E a \in DeployTwiceArgs : DeployAgain(a)
    \/ VpcActions
    \/ RoleActions
    \/ FunctionActions
    \/ StorageActions

\* SpecDeployTwice: deploy run again and again with the same arguments
SpecDeployTwice == Init /\ [][NextDeployTwice]_vars

(***************************************************************************)
(* Two processes.  Each runs the program on its own; nothing in the        *)
(* program waits for, or knows of, the other.  The variables pc .. nops    *)
(* are those of the process that takes the steps, peer holds those of the  *)
(* other process, and the two change places between any two provider       *)
(* calls.                                                                  *)
(***************************************************************************)
\* The other process is scheduled.  The process that is started first is
\* the one that takes the first step.
Switch ==
    /\ nops > 0
    /\ peer.nops = 0 \/ peer.pc # "idle"
    /\ peer' = Self
    /\ pc' = peer.pc
    /\ entry' = peer.entry
    /\ args' = peer.args
    /\ loc' = peer.loc
    /\ outcome' = peer.outcome
    /\ steps' = peer.steps
    /\ calls' = peer.calls
    /\ pre' = peer.pre
    /\ nops' = peer.nops
    /\ UNCHANGED provider

\* The deploy each of the two processes is launched with: the same function
\* name and the same (default) role name
TwoDeploysArgs ==
    [NoArgs EXCEPT !.ecr_image_uri = "img1", !.function_name = "f", !.s3_bucket = "b1"]

\* A process is launched to run one deploy
LaunchDeploy ==
    /\ nops = 0
    /\ Deploy(TwoDeploysArgs)

\* The calls of create_or_update_role without force_recreate
RoleActionsNoForce ==
    \/ GetRole
    \/ CreateRole
    \/ CreateBasicPolicy
    \/ GetAccountId
    \/ AttachBasicPolicy
    \/ GetRoleArn
    \/ GetPolicy
    \/ ListEntitiesForPolicy
    \/ DetachPolicyFromRole
    \/ DeletePolicy
    \/ CreateS3Policy
    \/ AttachS3Policy

NextTwoDeploys ==
    \/ LaunchDeploy
    \/ Switch
    \/ RoleActionsNoForce
    \/ FunctionActions
    \/ StorageActions

\* SpecTwoDeploys: two processes, each launched with a deploy of the same
\* function, on an account without the function
InitTwoDeploys == InitProvider(DeployIamEnvs, {NoFunction}) /\ InitProgram

SpecTwoDeploys == InitTwoDeploys /\ [][NextTwoDeploys]_vars

\* One deploy is launched
LaunchOneDeploy ==
    /\ nops = 0
    /\ \E a \in DeployArgs : Deploy(a)

\* The calls and waits of the program, and the provider finishing an update
ProgramSteps ==
    \/ VpcActions
    \/ RoleActions
    \/ FunctionActions
    \/ StorageActions

NextOneDeploy ==
    \/ LaunchOneDeploy
    \/ ProgramSteps

\* SpecTerminates: one deploy in which every provider call and every wait
\* that is issued returns, with its answer or with a fault; every listing
\* of the provider is finite
SpecTerminates == Init /\ [][NextOneDeploy]_vars /\ WF_vars(ProgramSteps)

\* A process is launched to run one call of create_or_update_role on the
\* role name r, with a bucket that is not the bucket of the other process
LaunchRoleCall ==
    /\ nops = 0
    /\ \E b \in OkBuckets, force \in BOOLEAN :
          /\ b # peer.args.s3_bucket
          /\ StartCreateOrUpdateRole("r", b, force)

\* The accounts the two calls start from: one without the role, and one in
\* which the role exists with an inline policy, its basic-execution policy
\* and a bucket policy scoped to a third bucket
TwoRoleCallsIamEnvs ==
    {e \in IamEnvs(GivenRoleNames, {{}, {"inline-1"}}, {"b0"}) :
        \/ ~e.ex /\ e.s3b = "" /\ ~e.basicEx /\ ~e.otherAtt
        \/ e.ex /\ e.basicEx /\ ~e.otherAtt /\ e.inl = {"inline-1"}
             /\ e.att = {PolicyArn(S3PolicyName(e.target)),
                         PolicyArn(BasicPolicyName(e.target))}}

InitTwoRoleCalls == InitProvider(TwoRoleCallsIamEnvs, {NoFunction}) /\ InitProgram

NextTwoRoleCalls ==
    \/ LaunchRoleCall
    \/ Switch
    \/ RoleActions

\* SpecTwoRoleCalls: two processes, each launched with one call of
\* create_or_update_role on the same role name, with different buckets
SpecTwoRoleCalls == InitTwoRoleCalls /\ [][NextTwoRoleCalls]_vars

(***************************************************************************)
(* The command surface: cli.deploy_command, which calls the four managers  *)
(* itself.  Between two manager calls the command is at pc = "idle" with   *)
(* the outcome of the manager that just ended.                             *)
(***************************************************************************)
\* deploy_command returned the exit code
Exited(code) == [NoOutcome EXCEPT !.status = "exited", !.msg = code]

\* The manager that was called last
LastStep == steps[Len(steps)].step

\* The call that raised is inside one of the try blocks of deploy_command
\* (lines 125-133, 137-149, 153-161); create_vpc_config (line 115) is not
InTryBlock == steps # <<>> /\ LastStep \in {"role", "function", "storage"}

\* deploy_command is between two of its statements
CommandInProgress ==
    /\ entry = "deploy_command"
    /\ \/ pc # "idle"
       \/ outcome.status = "returned"
       \/ outcome.status = "raised" /\ InTryBlock

\* deploy_command up to its first manager call (lines 105-123): the lists
\* are the flags split at the commas, an absent --security-group-ids is []
DeployCommand(a) ==
    /\ pc = "idle"
    /\ ~CommandInProgress
    /\ nops < MaxOps
    /\ nops' = nops + 1
    /\ entry' = "deploy_command"
    /\ args' = [a EXCEPT !.security_group_ids =
                   IF Truthy(a.vpc_id) /\ TruthyList(a.subnet_ids)
                      /\ ~TruthyList(a.security_group_ids)
                   THEN SomeList(<<>>) ELSE @]
    /\ loc' = [NoLoc EXCEPT !.role_name = ResolveRoleName(a.role_name, a.function_name)]
    /\ pre' = Snapshot
    /\ calls' = <<>>
    /\ steps' = <<>>
    /\ IF Truthy(a.vpc_id) /\ ~TruthyList(a.subnet_ids)
       THEN pc' = "idle" /\ outcome' = Exited("1")
       ELSE pc' = FirstStep(a) /\ outcome' = Running
    /\ UNCHANGED <<provider, peer>>

\* A manager returned to deploy_command: the next manager is called (lines
\* 126, 138, 154), and after the last one the command returns 0 (line 163)
DeployCommandContinues ==
    /\ entry = "deploy_command"
    /\ pc = "idle"
    /\ outcome.status = "returned"
    /\ IF LastStep = "storage"
       THEN pc' = "idle" /\ outcome' = Exited("0")
       ELSE pc' = DeployNext(LastStep) /\ outcome' = Running
    /\ UNCHANGED <<provider, entry, args, loc, steps, calls, pre, nops, peer>>

\* except Exception: log the error and return 1 (lines 131-133, 147-149,
\* 159-161)
DeployCommandCatches ==
    /\ entry = "deploy_command"
    /\ pc = "idle"
    /\ outcome.status = "raised"
    /\ InTryBlock
    /\ outcome' = Exited("1")
    /\ UNCHANGED <<provider, pc, entry, args, loc, steps, calls, pre, nops, peer>>

\* The flags of the command: the required ones given, any network flags,
\* the role flags of a plain call or a forced recreation of the role; and
\* the same with --ecr-image-uri "" (argparse requires the flag, not a
\* value that is not empty) and the network flags of a plain call
CommandArgs ==
    {a \in AllDeployArgs :
        /\ a.function_name = "f" /\ a.s3_bucket = "b1"
        /\ a.role_name = None
        /\ Truthy(a.vpc_id) \/ NetworkOff(a)
        /\ a.force_recreate_role => PlainNetwork(a)
        /\ a.ecr_image_uri = "" => PlainNetwork(a)}

NextCommand ==
    \/ \E a \in CommandArgs : DeployCommand(a)
    \/ DeployCommandContinues
    \/ DeployCommandCatches
    \/ VpcActions
    \/ RoleActions
    \/ FunctionActions
    \/ StorageActions

\* SpecCommand: runs of the command from the accounts a deploy starts from
SpecCommand == Init /\ [][NextCommand]_vars

(***************************************************************************)
(* Properties of LambdaDeployer.deploy.                                    *)
(***************************************************************************)
RequiredGiven(a) == a.ecr_image_uri # "" /\ a.function_name # "" /\ a.s3_bucket # ""
VpcGiven(a) == a.vpc_id # None /\ a.vpc_id # ""

\* A function as it is once the provider has finished a pending update:
\* the provider finishes updates on its own, whatever the deployer does
Settled(fs) == [f \in DOMAIN fs |-> [fs[f] EXCEPT !.busy = FALSE]]

\* Roles, policies, attachments and functions are as they were when the
\* operation was entered
ResourcesAsBefore ==
    /\ roles = pre.roles
    /\ policies = pre.policies
    /\ attached = pre.attached
    /\ Settled(functions) = Settled(pre.functions)

NoStepTaken == steps = <<>> /\ calls = <<>> /\ ResourcesAsBefore

\* C1: a deploy in which ecr_image_uri, function_name or s3_bucket is
\* empty has failed with a ValueError naming a required parameter, and no
\* manager method and no provider call has been invoked.
C1_MissingParameterBeforeAnyCall ==
    (entry = "deploy" /\ ~RequiredGiven(args)) =>
        /\ pc = "idle"
        /\ outcome.status = "raised"
        /\ outcome.type = "ValueError"
        /\ outcome.msg \in {"ECR image URI is required", "Function name is required",
                            "S3 bucket name is required"}
        /\ NoStepTaken

C1_Witness ==
    /\ entry = "deploy"
    /\ args.ecr_image_uri # "" /\ args.function_name # "" /\ args.s3_bucket = ""
    /\ outcome.msg = "S3 bucket name is required"

\* C2: a deploy with vpc_id set and subnet_ids None or empty (the required
\* parameters given) has failed with the ValueError about subnet IDs, and
\* neither the validator nor the role, function or storage step was called.
C2_VpcWithoutSubnetsRejected ==
    (/\ entry = "deploy"
     /\ RequiredGiven(args)
     /\ VpcGiven(args)
     /\ (~args.subnet_ids.some \/ args.subnet_ids.v = <<>>)) =>
        /\ pc = "idle"
        /\ outcome.status = "raised"
        /\ outcome.type = "ValueError"
        /\ outcome.msg = "Subnet IDs must be provided when using VPC configuration"
        /\ NoStepTaken

C2_Witness ==
    /\ entry = "deploy"
    /\ RequiredGiven(args)
    /\ args.vpc_id = "vpc-1"
    /\ args.subnet_ids = SomeList(<<>>)
    /\ outcome.status = "raised"

\* The network of a deploy is invalid: the VPC is missing or not available,
\* a subnet is missing, in another VPC or not available, or a security
\* group is missing or in another VPC
InvalidNetwork(a) ==
    \/ a.vpc_id \notin DOMAIN ec2.vpcs
    \/ ec2.vpcs[a.vpc_id] # "available"
    \/ \E i \in 1..Len(a.subnet_ids.v) :
          \/ a.subnet_ids.v[i] \notin DOMAIN ec2.subnets
          \/ ec2.subnets[a.subnet_ids.v[i]].VpcId # a.vpc_id
          \/ ec2.subnets[a.subnet_ids.v[i]].State # "available"
    \/ \E i \in 1..Len(a.security_group_ids.v) :
          \/ a.security_group_ids.v[i] \notin DOMAIN ec2.groups
          \/ ec2.groups[a.security_group_ids.v[i]].VpcId # a.vpc_id

ValidationErrors == {"Invalid VPC", "Invalid subnets", "Invalid security groups"}

OnlyNetworkTouched ==
    /\ \A i \in 1..Len(steps) : steps[i].step = "vpc"
    /\ \A i \in 1..Len(calls) :
          calls[i][1] \in {"ec2:DescribeVpcs", "ec2:DescribeSubnets",
                           "ec2:DescribeSecurityGroups"}
    /\ ResourcesAsBefore

\* C3: when vpc_id is given and the network is invalid, deploy never gets
\* past the validator: it ends with the validation error (or with the
\* provider fault that stopped the validator), no role, function or storage
\* step is called, and roles, policies, attachments and functions are as
\* they were before the call.  The same holds whenever deploy ends with a
\* validation error.
C3_ValidationFailureTouchesNothing ==
    /\ (/\ entry = "deploy" /\ RequiredGiven(args) /\ VpcGiven(args)
        /\ args.subnet_ids.some /\ args.subnet_ids.v # <<>>
        /\ InvalidNetwork(args)) =>
           /\ OnlyNetworkTouched
           /\ pc \in {"idle", "describe_vpcs", "describe_subnets", "describe_security_groups"}
           /\ pc = "idle" =>
                /\ outcome.status = "raised"
                /\ \/ outcome.type = "ValueError" /\ outcome.msg \in ValidationErrors
                   \/ outcome = OtherFault
    /\ (entry = "deploy" /\ outcome.msg \in ValidationErrors) =>
           /\ pc = "idle" /\ outcome.status = "raised" /\ outcome.type = "ValueError"
           /\ OnlyNetworkTouched

C3_Witness ==
    /\ entry = "deploy"
    /\ args.vpc_id = "vpc-1"
    /\ args.subnet_ids = SomeList(<<"s3">>)
    /\ outcome.msg = "Invalid subnets"
    /\ pre.roles[DefaultRoleName("f")].exists
    /\ pre.functions["f"].exists

\* The manager calls of a deploy, in order
StepOrder(a) ==
    (IF VpcGiven(a) THEN << <<"vpc", "call">>, <<"vpc", "ret">> >> ELSE <<>>)
      \o << <<"role", "call">>, <<"role", "ret">>,
            <<"function", "call">>, <<"function", "ret">>,
            <<"storage", "call">>, <<"storage", "ret">> >>

\* C4: at every point of a deploy the manager calls made so far are a
\* prefix of: network validation (only when vpc_id is given), role upsert,
\* function deploy, storage configuration, each called once and each called
\* only after the one before it returned.
C4_StepsInFixedOrder ==
    entry = "deploy" =>
        /\ Len(steps) <= Len(StepOrder(args))
        /\ \A i \in 1..Len(steps) : <<steps[i].step, steps[i].ev>> = StepOrder(args)[i]

C4_Witness ==
    /\ entry = "deploy"
    /\ VpcGiven(args)
    /\ Len(steps) = 8
    /\ outcome.status = "returned"

StepIs(i, step, ev) == steps[i].step = step /\ steps[i].ev = ev
Stepped(step, ev) == \E i \in 1..Len(steps) : StepIs(i, step, ev)
DeployRaised == entry = "deploy" /\ pc = "idle" /\ outcome.status = "raised"

\* C5: when the role, function or storage step of a deploy raises, nothing
\* is undone.  The step that raises changes no role, policy, attachment or
\* function, and after the deploy has raised the work of the steps that had
\* returned is still in place: the role exists with its bucket policy
\* attached once the role step returned, and the function exists with the
\* deployed image and role once the function step returned.
C5_NoRollback ==
    /\ [][(pc # "idle" /\ pc' = "idle" /\ outcome'.status = "raised") =>
            (roles' = roles /\ policies' = policies /\ attached' = attached
               /\ functions' = functions)]_vars
    /\ [](DeployRaised =>
            /\ Stepped("role", "ret") =>
                 /\ roles[loc.role_name].exists
                 /\ <<loc.role_name, PolicyArn(S3PolicyName(loc.role_name))>> \in attached
                 /\ policies[PolicyArn(S3PolicyName(loc.role_name))].bucket = args.s3_bucket
            /\ Stepped("function", "ret") =>
                 /\ functions[args.function_name].exists
                 /\ functions[args.function_name].image = args.ecr_image_uri
                 /\ functions[args.function_name].role = loc.role_arn)

C5_Witness ==
    /\ DeployRaised
    /\ Stepped("function", "ret")
    /\ outcome.type = "ValueError"
    /\ ~pre.roles[loc.role_name].exists /\ roles[loc.role_name].exists
    /\ ~pre.functions["f"].exists /\ functions["f"].exists

\* C6: a deploy that returned called the function step with the ARN the
\* role step had returned, which is the ARN of the role, and returned the
\* record made of the ARN the function step returned and that role ARN.
C6_ResultCarriesBothArns ==
    (entry = "deploy" /\ pc = "idle" /\ outcome.status = "returned") =>
        \E i, j, k \in 1..Len(steps) :
            /\ i < j /\ j < k
            /\ StepIs(i, "role", "ret")
            /\ StepIs(j, "function", "call")
            /\ StepIs(k, "function", "ret")
            /\ steps[i].role_arn = roles[steps[i].role_name].arn
            /\ steps[i].role_arn # ""
            /\ steps[j].role_arn = steps[i].role_arn
            /\ functions[args.function_name].role = steps[i].role_arn
            /\ steps[k].function_arn = functions[args.function_name].arn
            /\ steps[k].function_arn # ""
            /\ outcome.function_arn = steps[k].function_arn
            /\ outcome.role_arn = steps[i].role_arn

C6_Witness ==
    /\ entry = "deploy" /\ pc = "idle" /\ outcome.status = "returned"
    /\ ~pre.roles[loc.role_name].exists
    /\ ~pre.functions["f"].exists
    /\ outcome.role_arn = "arn:aws:iam::123456789012:role/lambda-f-role"
    /\ outcome.function_arn = "arn:aws:lambda:us-east-1:123456789012:function:f"

\* The role name a deploy has to use
ExpectedRoleName(a) ==
    IF a.role_name = None \/ a.role_name = ""
    THEN "lambda-" \o a.function_name \o "-role"
    ELSE a.role_name

RoleApis == {"iam:GetRole", "iam:CreateRole", "iam:DeleteRole",
             "iam:ListAttachedRolePolicies", "iam:ListRolePolicies"}

\* C7: a deploy calls the role step, and every role call of that step, with
\* the role name lambda-{function_name}-role when role_name is None or
\* empty, and with role_name itself otherwise.
C7_RoleNameDefault ==
    (entry = "deploy" /\ outcome.status # "none") =>
        /\ pc # "idle" => loc.role_name = ExpectedRoleName(args)
        /\ \A i \in 1..Len(steps) :
              steps[i].step = "role" => steps[i].role_name = ExpectedRoleName(args)
        /\ \A i \in 1..Len(calls) :
              calls[i][1] \in RoleApis => calls[i][2] = ExpectedRoleName(args)

C7_Witness ==
    /\ entry = "deploy"
    /\ args.role_name = ""
    /\ Stepped("role", "ret")
    /\ loc.role_name = "lambda-f-role"
    /\ \E i \in 1..Len(calls) : calls[i] = <<"iam:CreateRole", "lambda-f-role">>

C7_WitnessGiven ==
    /\ entry = "deploy"
    /\ args.role_name = "r"
    /\ Stepped("role", "ret")
    /\ \E i \in 1..Len(calls) : calls[i] = <<"iam:CreateRole", "r">>

(***************************************************************************)
(* Properties of IAMRoleManager.create_or_update_role.                     *)
(***************************************************************************)
RoleCallReturned ==
    entry = "create_or_update_role" /\ pc = "idle" /\ outcome.status = "returned"

S3Arn(role_name) == "arn:aws:iam::123456789012:policy/" \o role_name \o "-s3-access"
BasicArn(role_name) == "arn:aws:iam::123456789012:policy/" \o role_name \o "-basic-execution"

\* Ids of the roles and policies that existed when the operation started
OldIds ==
    {pre.roles[r].id : r \in {x \in RoleUniverse : pre.roles[x].exists}}
      \cup {pre.policies[p].id : p \in {x \in PolicyUniverse : pre.policies[x].exists}}

\* The bucket policy of the role is attached, scoped to the bucket of the
\* call, and was created during the call
FreshBucketPolicyAttached ==
    /\ <<args.role_name, S3Arn(args.role_name)>> \in attached
    /\ policies[S3Arn(args.role_name)].exists
    /\ policies[S3Arn(args.role_name)].kind = "s3"
    /\ policies[S3Arn(args.role_name)].bucket = args.s3_bucket
    /\ policies[S3Arn(args.role_name)].id \notin OldIds

\* C8: create_or_update_role on a role name that did not exist, once it
\* returned, has created the role with the Lambda service as the only
\* principal of its trust document, has left exactly the basic-execution
\* policy and the bucket policy attached to it, and has returned the role's
\* non-empty ARN.
C8_NewRole ==
    (RoleCallReturned /\ ~pre.roles[args.role_name].exists) =>
        /\ roles[args.role_name].exists
        /\ roles[args.role_name].id \notin OldIds
        /\ roles[args.role_name].trust = {"lambda.amazonaws.com"}
        /\ roles[args.role_name].inline = {}
        /\ AttachedTo(attached, args.role_name)
             = {BasicArn(args.role_name), S3Arn(args.role_name)}
        /\ policies[BasicArn(args.role_name)].exists
        /\ ~pre.policies[BasicArn(args.role_name)].exists =>
              /\ policies[BasicArn(args.role_name)].kind = "logs"
              /\ policies[BasicArn(args.role_name)].id \notin OldIds
        /\ FreshBucketPolicyAttached
        /\ outcome.role_arn = roles[args.role_name].arn
        /\ outcome.role_arn # ""

C8_Witness ==
    /\ RoleCallReturned
    /\ ~pre.roles[args.role_name].exists
    /\ ~pre.policies[BasicArn(args.role_name)].exists
    /\ AttachedTo(attached, args.role_name)
         = {BasicArn(args.role_name), S3Arn(args.role_name)}

\* C9: create_or_update_role on a role that exists, without force_recreate,
\* never issues delete-role or create-role; once it returned, the role is
\* the one that existed, the ARN returned is the ARN it had before the
\* call, and a bucket policy created during the call is attached to it.
C9_ExistingRoleReused ==
    (/\ entry = "create_or_update_role"
     /\ pre.roles[args.role_name].exists
     /\ ~args.force_recreate_role) =>
        /\ \A i \in 1..Len(calls) : calls[i][1] \notin {"iam:DeleteRole", "iam:CreateRole"}
        /\ roles[args.role_name] = pre.roles[args.role_name]
        /\ RoleCallReturned =>
             /\ outcome.role_arn = pre.roles[args.role_name].arn
             /\ outcome.role_arn # ""
             /\ FreshBucketPolicyAttached

C9_Witness ==
    /\ RoleCallReturned
    /\ pre.roles[args.role_name].exists
    /\ ~args.force_recreate_role
    /\ <<args.role_name, S3Arn(args.role_name)>> \in pre.attached
    /\ pre.policies[S3Arn(args.role_name)].bucket # args.s3_bucket

ForcedRecreateReturned ==
    RoleCallReturned /\ pre.roles[args.role_name].exists /\ args.force_recreate_role

\* A policy that was attached to the role before the call and is the very
\* same policy (same ARN, same id) attached to it now
StillAttached(p) ==
    /\ <<args.role_name, p>> \in pre.attached
    /\ <<args.role_name, p>> \in attached
    /\ policies[p].id = pre.policies[p].id

\* C10 as claimed: after create_or_update_role with force_recreate on an
\* existing role returned, the role exists and none of the policies that
\* were attached to it before the call is attached to it.
C10_Claimed_NoPriorPolicyAttached ==
    ForcedRecreateReturned =>
        /\ roles[args.role_name].exists
        /\ \A p \in PolicyUniverse : ~StillAttached(p)

\* C10 as amended: after create_or_update_role with force_recreate on an
\* existing role returned, the role is a new one (new id, Lambda trust, no
\* inline policy), exactly its basic-execution policy and a bucket policy
\* created during the call are attached, and the only policy that can be
\* attached both before and after is the role's own basic-execution policy,
\* which is reused when it already existed.
C10_RecreatedRoleKeepsOnlyBasicPolicy ==
    ForcedRecreateReturned =>
        /\ roles[args.role_name].exists
        /\ roles[args.role_name].id \notin OldIds
        /\ roles[args.role_name].trust = {"lambda.amazonaws.com"}
        /\ roles[args.role_name].inline = {}
        /\ AttachedTo(attached, args.role_name)
             = {BasicArn(args.role_name), S3Arn(args.role_name)}
        /\ FreshBucketPolicyAttached
        /\ \A p \in PolicyUniverse : StillAttached(p) => p = BasicArn(args.role_name)
        /\ pre.policies[BasicArn(args.role_name)].exists =>
              policies[BasicArn(args.role_name)] = pre.policies[BasicArn(args.role_name)]

C10_Witness ==
    /\ ForcedRecreateReturned
    /\ AttachedTo(pre.attached, args.role_name)
         = {BasicArn(args.role_name), S3Arn(args.role_name), ForeignPolicyArn}
    /\ pre.roles[args.role_name].inline # {}
    /\ StillAttached(BasicArn(args.role_name))

\* The bucket policies of a role: the policies scoped to a bucket that are
\* attached to the role or that exist under the role's policy name
BucketPoliciesOf(role_name) ==
    {p \in PolicyUniverse :
        /\ policies[p].exists /\ policies[p].kind = "s3"
        /\ <<role_name, p>> \in attached \/ p = S3Arn(role_name)}

\* C11: after a sequence of calls of create_or_update_role on one role
\* name that all returned, whatever their buckets and force flags, exactly
\* one bucket policy is attached to the role, it is scoped to the bucket of
\* the last call and was created by the last call; no bucket policy of an
\* earlier call exists or is attached.
C11_OneCurrentBucketPolicy ==
    RoleCallReturned =>
        /\ BucketPoliciesOf(args.role_name) = {S3Arn(args.role_name)}
        /\ <<args.role_name, S3Arn(args.role_name)>> \in attached
        /\ \A p \in BucketPoliciesOf(args.role_name) :
              /\ policies[p].bucket = args.s3_bucket
              /\ policies[p].id \notin OldIds
        /\ \A p \in AttachedTo(attached, args.role_name) : policies[p].exists

C11_Witness ==
    /\ RoleCallReturned
    /\ nops = 2
    /\ <<args.role_name, S3Arn(args.role_name)>> \in pre.attached
    /\ pre.policies[S3Arn(args.role_name)].id >= FirstFreeId
    /\ pre.policies[S3Arn(args.role_name)].bucket # args.s3_bucket
    /\ policies[S3Arn(args.role_name)].bucket = args.s3_bucket

(***************************************************************************)
(* Properties of LambdaFunctionDeployer.deploy_function.                   *)
(***************************************************************************)
Count(api) == Cardinality({i \in 1..Len(calls) : calls[i][1] = api})
ApisCalled == [i \in 1..Len(calls) |-> calls[i][1]]
InDeployFunction == entry = "deploy_function" /\ outcome.status # "none"
FunctionCallReturned ==
    entry = "deploy_function" /\ pc = "idle" /\ outcome.status = "returned"

\* C12: deploy_function on a name that does not exist issues one
\* create-function and no update; on a name that exists it issues one
\* update-function-code, then one update-function-configuration, and no
\* create-function.  No call is issued twice, so a second deploy of a name
\* the first deploy created only updates.
C12_CreateOnceElseUpdate ==
    InDeployFunction =>
        /\ Count("lambda:CreateFunction") <= 1
        /\ Count("lambda:UpdateFunctionCode") <= 1
        /\ Count("lambda:UpdateFunctionConfiguration") <= 1
        /\ pre.functions[args.function_name].exists =>
              Count("lambda:CreateFunction") = 0
        /\ ~pre.functions[args.function_name].exists =>
              /\ Count("lambda:UpdateFunctionCode") = 0
              /\ Count("lambda:UpdateFunctionConfiguration") = 0
        /\ FunctionCallReturned =>
              ApisCalled = IF pre.functions[args.function_name].exists
                           THEN <<"lambda:GetFunction", "lambda:UpdateFunctionCode",
                                  "lambda:UpdateFunctionConfiguration">>
                           ELSE <<"lambda:GetFunction", "lambda:CreateFunction">>

\* The second deploy of a name the first deploy created, with another image
C12_Witness ==
    /\ FunctionCallReturned
    /\ nops = 2
    /\ pre.functions[args.function_name].exists
    /\ pre.functions[args.function_name].env = {}
    /\ pre.functions[args.function_name].image # args.ecr_image_uri
    /\ functions[args.function_name].image = args.ecr_image_uri
    /\ Count("lambda:UpdateFunctionConfiguration") = 1

\* deploy_function raised after its code update went through: the code
\* waiter gave up, or the configuration update was refused
RaisedAfterCodeUpdate ==
    /\ entry = "deploy_function" /\ pc = "idle" /\ outcome.status = "raised"
    /\ \/ ApisCalled = <<"lambda:GetFunction", "lambda:UpdateFunctionCode">>
             /\ outcome.type = "WaiterError"
       \/ ApisCalled = <<"lambda:GetFunction", "lambda:UpdateFunctionCode",
                          "lambda:UpdateFunctionConfiguration">>
             /\ outcome.type = "ClientError"

\* C13: when deploy_function on a function that exists fails between the
\* code update and the configuration update, or the configuration update
\* is refused, it raises with the function holding the new image and the
\* role, memory, timeout and network attachment it had before; the calls
\* issued end with the failed one, so nothing puts the old image back.
C13_NewCodeOldConfiguration ==
    RaisedAfterCodeUpdate =>
        /\ pre.functions[args.function_name].exists
        /\ functions[args.function_name].exists
        /\ functions[args.function_name].image = args.ecr_image_uri
        /\ functions[args.function_name].role = pre.functions[args.function_name].role
        /\ functions[args.function_name].memory = pre.functions[args.function_name].memory
        /\ functions[args.function_name].timeout = pre.functions[args.function_name].timeout
        /\ functions[args.function_name].vpc = pre.functions[args.function_name].vpc
        /\ functions[args.function_name].env = pre.functions[args.function_name].env

C13_Witness ==
    /\ RaisedAfterCodeUpdate
    /\ Count("lambda:UpdateFunctionConfiguration") = 1
    /\ pre.functions[args.function_name].image = "img0"
    /\ functions[args.function_name].image = "img1"
    /\ functions[args.function_name].role # loc.role_arn
    /\ functions[args.function_name].memory = 256
    /\ args.memory_size = 512
    /\ loc.vpc_config.some
    /\ functions[args.function_name].vpc # loc.vpc_config

(***************************************************************************)
(* Properties of VPCConfigurator.create_vpc_config.                        *)
(***************************************************************************)
\* What the network holds, read off the provider's tables
VpcBad(vpc_id) == vpc_id \notin DOMAIN ec2.vpcs \/ ec2.vpcs[vpc_id] # "available"

\* The subnets the provider returns for the ids are fewer than the ids (an
\* id is unknown or given twice), or one is in another VPC or not available
SubnetsBad(ids, vpc_id) ==
    \/ Cardinality({x \in DOMAIN ec2.subnets : \E i \in 1..Len(ids) : ids[i] = x}) # Len(ids)
    \/ \E i \in 1..Len(ids) :
          /\ ids[i] \in DOMAIN ec2.subnets
          /\ ec2.subnets[ids[i]].VpcId # vpc_id \/ ec2.subnets[ids[i]].State # "available"

GroupsBad(ids, vpc_id) ==
    \/ Cardinality({x \in DOMAIN ec2.groups : \E i \in 1..Len(ids) : ids[i] = x}) # Len(ids)
    \/ \E i \in 1..Len(ids) :
          ids[i] \in DOMAIN ec2.groups /\ ec2.groups[ids[i]].VpcId # vpc_id

GroupsSupplied(a) == a.security_group_ids.some /\ a.security_group_ids.v # <<>>

\* create_vpc_config ended and no describe call was answered with a fault
\* other than not-found
VpcCallEnded ==
    entry = "create_vpc_config" /\ pc = "idle" /\ outcome.status \in {"raised", "returned"}
      /\ outcome # OtherFault

\* C14: create_vpc_config fails with the invalid-VPC error when the VPC is
\* absent or not available; else with the invalid-subnets error when the
\* subnets returned are fewer than requested or one is in another VPC or
\* not available; else, when security groups are supplied, with the
\* invalid-security-groups error when the groups returned are fewer than
\* requested or one is in another VPC; else it returns.  The first failing
\* test decides the error, and no later describe call is issued.
C14_FirstFailingValidationDecides ==
    VpcCallEnded =>
        IF VpcBad(args.vpc_id)
        THEN /\ outcome = Raised("ValueError", "Invalid VPC")
             /\ ApisCalled = <<"ec2:DescribeVpcs">>
        ELSE IF SubnetsBad(args.subnet_ids.v, args.vpc_id)
        THEN /\ outcome = Raised("ValueError", "Invalid subnets")
             /\ ApisCalled = <<"ec2:DescribeVpcs", "ec2:DescribeSubnets">>
        ELSE IF GroupsSupplied(args) /\ GroupsBad(args.security_group_ids.v, args.vpc_id)
        THEN /\ outcome = Raised("ValueError", "Invalid security groups")
             /\ ApisCalled = <<"ec2:DescribeVpcs", "ec2:DescribeSubnets",
                               "ec2:DescribeSecurityGroups">>
        ELSE outcome.status = "returned"

\* Subnets and groups are both invalid: the subnets decide
C14_Witness ==
    /\ VpcCallEnded
    /\ args.vpc_id = "vpc-1"
    /\ args.subnet_ids.v = <<"s3">>
    /\ args.security_group_ids = SomeList(<<"g2">>)
    /\ outcome.msg = "Invalid subnets"

\* C15: when create_vpc_config returns, the descriptor holds the subnet
\* ids as given and in the order given, the security group ids as given
\* when a non-empty list was supplied, and no SecurityGroupIds field when
\* the argument was None or an empty list.
C15_DescriptorEchoesInput ==
    (entry = "create_vpc_config" /\ pc = "idle" /\ outcome.status = "returned") =>
        /\ loc.vpc_config.some
        /\ loc.vpc_config.SubnetIds = args.subnet_ids.v
        /\ loc.vpc_config.hasSG = GroupsSupplied(args)
        /\ GroupsSupplied(args) =>
              loc.vpc_config.SecurityGroupIds = args.security_group_ids.v
        /\ steps[Len(steps)].vpc_config = loc.vpc_config

C15_Witness ==
    /\ entry = "create_vpc_config" /\ pc = "idle" /\ outcome.status = "returned"
    /\ args.subnet_ids.v = <<"s2", "s1">>
    /\ args.security_group_ids = SomeList(<<>>)
    /\ loc.vpc_config.SubnetIds = <<"s2", "s1">>
    /\ ~loc.vpc_config.hasSG

\* C16: in a deploy, whenever the function step has been called with a
\* network attachment, vpc_id was given, the validator had been called and
\* had returned that attachment before, its describe calls were issued in
\* this deploy, the VPC is available, every subnet of the attachment is an
\* available subnet of the VPC and every security group of the attachment
\* is a group of the VPC.
C16_OnlyValidatedNetworkReachesFunction ==
    entry = "deploy" =>
        \A j \in 1..Len(steps) :
            (StepIs(j, "function", "call") /\ steps[j].vpc_config.some) =>
                /\ VpcGiven(args)
                /\ \E i \in 1..(j - 1) :
                      StepIs(i, "vpc", "ret") /\ steps[i].vpc_config = steps[j].vpc_config
                /\ Count("ec2:DescribeVpcs") = 1
                /\ Count("ec2:DescribeSubnets") = 1
                /\ steps[j].vpc_config.hasSG => Count("ec2:DescribeSecurityGroups") = 1
                /\ steps[j].vpc_config.SubnetIds = args.subnet_ids.v
                /\ steps[j].vpc_config.hasSG = GroupsSupplied(args)
                /\ steps[j].vpc_config.hasSG =>
                      steps[j].vpc_config.SecurityGroupIds = args.security_group_ids.v
                /\ ~VpcBad(args.vpc_id)
                /\ ~SubnetsBad(steps[j].vpc_config.SubnetIds, args.vpc_id)
                /\ ~GroupsBad(steps[j].vpc_config.SecurityGroupIds, args.vpc_id)

C16_Witness ==
    /\ entry = "deploy"
    /\ Stepped("function", "ret")
    /\ functions[args.function_name].vpc.SubnetIds = <<"s1", "s2">>
    /\ functions[args.function_name].vpc.SecurityGroupIds = <<"g1", "g3">>
    /\ \E j \in 1..Len(steps) : StepIs(j, "function", "call") /\ steps[j].vpc_config.hasSG

(***************************************************************************)
(* Properties of S3AccessManager.configure_s3_access.                      *)
(***************************************************************************)
InConfigureS3Access == entry = "configure_s3_access" /\ outcome.status # "none"
BucketUnavailable == Raised("ValueError", "S3 bucket does not exist or is not accessible")

\* The function was read or written by the call in progress
FunctionTouched ==
    \/ Count("lambda:GetFunctionConfiguration") > 0
    \/ Count("lambda:UpdateFunctionConfiguration") > 0
    \/ Settled(functions) # Settled(pre.functions)

EnvironmentWritten ==
    /\ entry = "configure_s3_access"
    /\ \/ pc = "wait_environment_updated"
       \/ pc = "idle" /\ outcome.status = "returned"
       \/ pc = "idle" /\ outcome.type = "WaiterError"

Keys(env) == {kv[1] : kv \in env}

\* C18: the environment configure_s3_access writes is the environment the
\* function had with S3_BUCKET set to the bucket of the call: every other
\* variable is there with its value, no variable is added or dropped, and
\* S3_BUCKET has the one value of the call whatever it was before.
C18_EnvironmentMerged ==
    EnvironmentWritten =>
        LET old == pre.functions[args.function_name].env
            new == functions[args.function_name].env
        IN  /\ <<"S3_BUCKET", args.s3_bucket>> \in new
            /\ \A kv \in new : kv[1] = "S3_BUCKET" => kv[2] = args.s3_bucket
            /\ \A kv \in old : kv[1] # "S3_BUCKET" => kv \in new
            /\ \A kv \in new : kv[1] # "S3_BUCKET" => kv \in old
            /\ Keys(new) = Keys(old) \cup {"S3_BUCKET"}

C18_Witness ==
    /\ EnvironmentWritten
    /\ outcome.status = "returned"
    /\ args.s3_bucket = "b1"
    /\ pre.functions[args.function_name].env
         = {<<"LOG_LEVEL", "debug">>, <<"MODE", "batch">>, <<"S3_BUCKET", "b0">>}
    /\ functions[args.function_name].env
         = {<<"LOG_LEVEL", "debug">>, <<"MODE", "batch">>, <<"S3_BUCKET", "b1">>}

(***************************************************************************)
(* Properties of the command surface.                                      *)
(***************************************************************************)
\* deploy_command has ended: it returned an exit code, or an exception
\* left it
CommandEnded ==
    /\ entry = "deploy_command"
    /\ pc = "idle"
    /\ outcome.status \in {"exited", "raised"}
    /\ ~CommandInProgress

EveryStepSucceeded ==
    /\ VpcGiven(args) => Stepped("vpc", "ret")
    /\ Stepped("role", "ret")
    /\ Stepped("function", "ret")
    /\ Stepped("storage", "ret")

\* C19 as claimed: whenever the command has ended it has returned an exit
\* code, no exception has left it, and the code is 0 exactly when every
\* deployment step succeeded and 1 otherwise, a failed network validation
\* included.
C19_Claimed_EveryFailureReturnsOne ==
    CommandEnded =>
        /\ outcome.status = "exited"
        /\ outcome.msg = IF EveryStepSucceeded THEN "0" ELSE "1"

\* The network validation failed and its ValueError left deploy_command
C19_Witness ==
    /\ CommandEnded
    /\ outcome = Raised("ValueError", "Invalid VPC")
    /\ args.vpc_id = "vpc-9"
    /\ ApisCalled = <<"ec2:DescribeVpcs">>

(***************************************************************************)
(* Properties of the existence checks.                                     *)
(***************************************************************************)
\* The call of an existence check was answered with a fault other than
\* not-found, and the check raised that fault
ReRaised == pc' = "idle" /\ outcome' = OtherFault /\ loc' = loc

\* The check returned to its caller without raising
Went(next) == pc' = next /\ outcome' = outcome

\* One step of the program at each of the six existence checks.  present
\* is what the provider holds when the check is made.
ExistenceCheckStep ==
    /\ pc = "get_role" =>
          LET present == roles[loc.role_name].exists
          IN  \/ ReRaised
              \/ /\ loc'.role_exists = present
                 /\ Went(IF ~present THEN "create_role"
                         ELSE IF args.force_recreate_role THEN "list_attached_role_policies"
                         ELSE "get_role_arn")
    /\ pc = "get_function" =>
          LET present == functions[args.function_name].exists
          IN  \/ ReRaised
              \/ /\ loc'.function_exists = present
                 /\ Went(IF present THEN "update_function_code" ELSE "create_function")
    /\ pc = "get_policy" =>
          LET present == policies[S3Arn(loc.role_name)].exists
          IN  \/ ReRaised
              \/ Went(IF present THEN "list_entities_for_policy" ELSE "create_s3_policy")
    /\ pc = "describe_vpcs" =>
          \/ ReRaised
          \/ VpcBad(args.vpc_id) /\ pc' = "idle"
               /\ outcome' = Raised("ValueError", "Invalid VPC")
          \/ ~VpcBad(args.vpc_id) /\ Went("describe_subnets")
    /\ pc = "describe_subnets" =>
          \/ ReRaised
          \/ SubnetsBad(args.subnet_ids.v, args.vpc_id) /\ pc' = "idle"
               /\ outcome' = Raised("ValueError", "Invalid subnets")
          \/ ~SubnetsBad(args.subnet_ids.v, args.vpc_id) /\ pc' # "idle"
               /\ outcome' = outcome
    /\ pc = "describe_security_groups" =>
          \/ ReRaised
          \/ GroupsBad(args.security_group_ids.v, args.vpc_id) /\ pc' = "idle"
               /\ outcome' = Raised("ValueError", "Invalid security groups")
          \/ ~GroupsBad(args.security_group_ids.v, args.vpc_id) /\ pc' # "idle"
               /\ outcome' = outcome

\* C20: each of the six existence checks (_role_exists, _function_exists,
\* the policy lookup, _validate_vpc, _validate_subnets,
\* _validate_security_groups) answers "absent" without raising exactly
\* when the provider does not hold the resource, answers "present" when it
\* does, and raises the provider's fault as it is when the call was
\* answered with any other fault; a fault is never taken for "absent".
C20_ExistenceChecksFaithful == [][pc' # pc => ExistenceCheckStep]_vars

\* A deploy in which the role, the bucket policy and the function were
\* all found absent and were created
C20_Witness ==
    /\ entry = "deploy"
    /\ outcome.status = "returned"
    /\ ~pre.roles[loc.role_name].exists /\ roles[loc.role_name].exists
    /\ ~pre.policies[S3Arn(loc.role_name)].exists /\ policies[S3Arn(loc.role_name)].exists
    /\ ~pre.functions[args.function_name].exists /\ functions[args.function_name].exists
    /\ Count("iam:GetRole") = 1 /\ Count("iam:GetPolicy") = 1
    /\ Count("lambda:GetFunction") = 1

\* C21 as claimed: a run of the command on flags that deploy rejects (an
\* empty required value, a VPC without subnets) makes no manager call and
\* no provider call and is rejected; on flags that deploy accepts the
\* manager calls are those of deploy, in deploy's order, with the role name
\* deploy resolves.
C21_Claimed_CommandAsOrchestrator ==
    entry = "deploy_command" =>
        /\ ValidateParameters(args) # "" =>
              /\ pc = "idle" /\ outcome = Exited("1")
              /\ steps = <<>> /\ calls = <<>>
        /\ ValidateParameters(args) = "" =>
              /\ Len(steps) <= Len(StepOrder(args))
              /\ \A i \in 1..Len(steps) :
                    /\ <<steps[i].step, steps[i].ev>> = StepOrder(args)[i]
                    /\ steps[i].step = "role" =>
                          steps[i].role_name = ExpectedRoleName(args)

\* The part of C21 that holds: on flags that deploy accepts the command
\* calls the managers as deploy does
C21_AcceptedFlagsAsOrchestrator ==
    (entry = "deploy_command" /\ ValidateParameters(args) = "") =>
        /\ Len(steps) <= Len(StepOrder(args))
        /\ \A i \in 1..Len(steps) :
              /\ <<steps[i].step, steps[i].ev>> = StepOrder(args)[i]
              /\ steps[i].step = "role" => steps[i].role_name = ExpectedRoleName(args)

\* The command was run with an empty image URI, which deploy rejects before
\* any call, and has created the role
C21_Witness ==
    /\ entry = "deploy_command"
    /\ args.ecr_image_uri = ""
    /\ Stepped("role", "ret")
    /\ ~pre.roles[loc.role_name].exists /\ roles[loc.role_name].exists
    /\ outcome = Exited("1")

(***************************************************************************)
(* Properties of two deploys that overlap.                                 *)
(***************************************************************************)
Processes == {Self, peer}

\* Process p has issued the call api
Issued(p, api) == \E i \in 1..Len(p.calls) : p.calls[i][1] = api

\* The last call process p issued was api, and it was answered with a
\* fault that ended p's deploy
FailedAt(p, api) ==
    /\ p.pc = "idle" /\ p.outcome.status = "raised" /\ p.outcome.type = "ClientError"
    /\ p.calls # <<>> /\ p.calls[Len(p.calls)][1] = api

\* Both processes found the resource absent and issued the create call for
\* it: one of the two calls was refused, with the provider's conflict
\* unless it was answered with another fault, and the deploy that issued
\* it has failed
CreateRace(api, conflict) ==
    (\A p \in Processes : Issued(p, api)) =>
        /\ \E p \in Processes : FailedAt(p, api)
        /\ \A p \in Processes :
              FailedAt(p, api) => p.outcome.msg \in {conflict, "AccessDenied"}
        /\ (\A p \in Processes : p.outcome.msg # "AccessDenied") =>
              \E p, q \in Processes :
                 /\ FailedAt(p, api) /\ p.outcome.msg = conflict
                 /\ ~FailedAt(q, api)

\* C22: two deploys of one function name and role name that run as two
\* processes are not kept apart: both can find the function (or the role)
\* absent and both issue the create call for it, and whenever that has
\* happened one of the two create calls was refused and the deploy that
\* issued it failed, with the provider's conflict unless the call was
\* answered with another fault.
C22_BothCreateOneFails ==
    /\ CreateRace("lambda:CreateFunction", "ResourceConflictException")
    /\ CreateRace("iam:CreateRole", "EntityAlreadyExists")

\* Both processes found the function absent and issued create_function;
\* one deploy returned its record, the other failed with the conflict
C22_Witness ==
    /\ entry = "deploy" /\ peer.entry = "deploy"
    /\ \A p \in Processes : Issued(p, "lambda:CreateFunction")
    /\ \E p, q \in Processes :
          /\ FailedAt(p, "lambda:CreateFunction")
          /\ p.outcome.msg = "ResourceConflictException"
          /\ q.pc = "idle" /\ q.outcome.status = "returned"

\* Both processes found the role absent and issued create_role; one of
\* them failed with the conflict
C22_WitnessRole ==
    /\ \A p \in Processes : Issued(p, "iam:CreateRole")
    /\ \E p \in Processes :
          FailedAt(p, "iam:CreateRole") /\ p.outcome.msg = "EntityAlreadyExists"

(***************************************************************************)
(* Properties of a deploy that is repeated.                                *)
(***************************************************************************)
\* What the claim compares: the policies attached to the role, the bucket
\* the access policy is scoped to, and the function's image, role, memory
\* size, timeout and environment
Deployed(rs, ps, att, fs) ==
    [attached |-> AttachedTo(att, loc.role_name),
     bucket |-> ps[S3Arn(loc.role_name)].bucket,
     image |-> fs[args.function_name].image,
     role |-> fs[args.function_name].role,
     memory |-> fs[args.function_name].memory,
     timeout |-> fs[args.function_name].timeout,
     env |-> fs[args.function_name].env]

\* deploy was run again with the arguments of the run before, without the
\* force flag, and returned as the run before did
RepeatedDeployReturned ==
    /\ entry = "deploy" /\ nops >= 2
    /\ pc = "idle" /\ outcome.status = "returned"
    /\ ~args.force_recreate_role

\* The faults the model injects into provider calls and waits
InjectedFaults == {OtherFault, Raised("WaiterError", "Waiter failed")}

\* C23: when deploy is run again with the same arguments (no force flag)
\* after a run that returned, the second run fails only with a fault the
\* provider injected, and when it returns it returns the ARNs of the role
\* and of the function the first run left behind, and the role's attached
\* policies, the access policy's bucket and the function's image, role,
\* memory size, timeout and environment are what they were after the first
\* run (pre is the account as the first run left it).
C23_RepeatedDeployIdempotent ==
    /\ (entry = "deploy" /\ nops >= 2 /\ ~args.force_recreate_role
           /\ outcome.status = "raised") => outcome \in InjectedFaults
    /\ RepeatedDeployReturned =>
          /\ outcome.role_arn = pre.roles[loc.role_name].arn
          /\ outcome.function_arn = pre.functions[args.function_name].arn
          /\ pre.roles[loc.role_name].exists /\ pre.functions[args.function_name].exists
          /\ Deployed(roles, policies, attached, functions)
               = Deployed(pre.roles, pre.policies, pre.attached, pre.functions)

\* The second run of a deploy returned, on an account in which the role
\* existed before the first run with a foreign policy attached
C23_Witness ==
    /\ RepeatedDeployReturned
    /\ nops = 2
    /\ VpcGiven(args)
    /\ ForeignPolicyArn \in AttachedTo(attached, loc.role_name)
    /\ Count("lambda:UpdateFunctionCode") = 1
    /\ Count("iam:GetRole") = 2

(***************************************************************************)
(* Properties of a deploy without a network.                               *)
(***************************************************************************)
NetworkApis == {"ec2:DescribeVpcs", "ec2:DescribeSubnets", "ec2:DescribeSecurityGroups"}

\* C24: in a deploy called without vpc_id (None or empty), whatever
\* subnet_ids and security_group_ids are, the network validator is never
\* called, no describe call is issued, the function step is called with
\* vpc_config None, and a function the deploy creates has no network
\* attachment.
C24_NoVpcIdNoNetwork ==
    (entry = "deploy" /\ ~VpcGiven(args)) =>
        /\ \A i \in 1..Len(steps) :
              steps[i].step # "vpc" /\ steps[i].vpc_config = NoVpcConfig
        /\ \A i \in 1..Len(calls) : calls[i][1] \notin NetworkApis
        /\ loc.vpc_config = NoVpcConfig
        /\ (Count("lambda:CreateFunction") > 0 /\ functions[args.function_name].exists) =>
              functions[args.function_name].vpc = NoVpcConfig

\* A deploy without vpc_id but with subnets and security groups (which do
\* not even exist) has created the function
C24_Witness ==
    /\ entry = "deploy"
    /\ args.vpc_id = None
    /\ args.subnet_ids = SomeList(<<"s9">>)
    /\ args.security_group_ids = SomeList(<<"g9">>)
    /\ Stepped("function", "ret")
    /\ ~pre.functions[args.function_name].exists
    /\ functions[args.function_name].exists
    /\ functions[args.function_name].vpc = NoVpcConfig

(***************************************************************************)
(* Properties of the paging loops of the role manager.                     *)
(***************************************************************************)
InRoleCall == entry = "create_or_update_role" /\ outcome.status # "none"

\* The calls that detach the bucket policy from a role (the role is named),
\* that delete it and that create it
IsDetachFromRole(i) == calls[i][1] = "iam:DetachRolePolicy" /\ calls[i][2] \in RoleUniverse
IsDeletePolicy(i) == calls[i][1] = "iam:DeletePolicy"
IsCreateS3Policy(i) == calls[i] = <<"iam:CreatePolicy", S3PolicyName(loc.role_name)>>

\* Detach calls come before the delete call, the delete call before the
\* create call, and when the policy was absent there is no detach, no
\* delete and one create call at most
PolicyCallsInOrder ==
    /\ \A i, j \in 1..Len(calls) :
          /\ (IsDetachFromRole(i) /\ IsDeletePolicy(j)) => i < j
          /\ (IsDeletePolicy(i) /\ IsCreateS3Policy(j)) => i < j
    /\ ~pre.policies[S3Arn(loc.role_name)].exists =>
          /\ \A i \in 1..Len(calls) : ~IsDetachFromRole(i) /\ ~IsDeletePolicy(i)
          /\ Cardinality({i \in 1..Len(calls) : IsCreateS3Policy(i)}) <= 1

\* C25 as claimed: in create_or_update_role, when the policy
\* {role_name}-s3-access exists, the delete-policy call is issued only
\* once the policy is detached from every role that references it, whatever
\* the pages of the role listing are; detach calls come before the delete
\* call and the delete call before the create call; and when the policy is
\* absent no detach and no delete is issued and create-policy is called
\* once.
C25_Claimed_DetachedEverywhereBeforeDelete ==
    InRoleCall =>
        /\ pc = "delete_policy" => RolesOf(attached, loc.policy_arn) = {}
        /\ PolicyCallsInOrder

\* The part of C25 that holds whatever the pages are: the order of the
\* calls, and nothing but one create call when the policy is absent
C25_OrderOfPolicyCalls == InRoleCall => PolicyCallsInOrder

\* The bucket policy was attached to two roles; after one detach call the
\* listing was over, and the delete-policy call was refused because the
\* policy is still attached to a role
C25_Witness ==
    /\ InRoleCall
    /\ pc = "idle" /\ outcome = Raised("ClientError", "DeleteConflict")
    /\ calls[Len(calls)][1] = "iam:DeletePolicy"
    /\ Cardinality(RolesOf(pre.attached, S3Arn(loc.role_name))) = 2
    /\ Cardinality(RolesOf(attached, S3Arn(loc.role_name))) = 1
    /\ ~args.force_recreate_role

\* The call is on the force-recreate path: the role existed and
\* force_recreate is set
ForcedRecreate == InRoleCall /\ pre.roles[loc.role_name].exists /\ args.force_recreate_role

\* create_role is issued only after delete_role was issued and returned:
\* the delete call is in the calls made, and the role is gone
CreateAfterDelete ==
    /\ pc = "create_role" => ~roles[loc.role_name].exists
    /\ \A j \in 1..Len(calls) :
          calls[j][1] = "iam:CreateRole" =>
             \E i \in 1..(j - 1) : calls[i][1] = "iam:DeleteRole"

\* C26 as claimed: on the force-recreate path the delete-role call is
\* issued only when no managed policy is attached to the role and no
\* inline policy is left, whatever the pages of the two listings are, and
\* the create-role call is issued only after delete-role returned.
C26_Claimed_RoleBareBeforeDelete ==
    ForcedRecreate =>
        /\ pc = "delete_role" =>
              /\ AttachedTo(attached, loc.role_name) = {}
              /\ roles[loc.role_name].inline = {}
        /\ CreateAfterDelete

\* The part of C26 that holds whatever the pages are
C26_CreateOnlyAfterDelete == ForcedRecreate => CreateAfterDelete

\* The role had three managed policies attached; the listing was over
\* before all of them were detached, and the delete-role call was refused
\* because a policy is still attached
C26_Witness ==
    /\ ForcedRecreate
    /\ pc = "idle" /\ outcome = Raised("ClientError", "DeleteConflict")
    /\ calls[Len(calls)][1] = "iam:DeleteRole"
    /\ Cardinality(AttachedTo(pre.attached, loc.role_name)) = 3
    /\ AttachedTo(attached, loc.role_name) # {}
    /\ roles[loc.role_name].exists

(***************************************************************************)
(* Properties of _create_role.                                             *)
(***************************************************************************)
IsCreateBasicPolicy(i) == calls[i] = <<"iam:CreatePolicy", BasicPolicyName(loc.role_name)>>
IsAttachBasicPolicy(i) == calls[i] = <<"iam:AttachRolePolicy", BasicArn(loc.role_name)>>

\* create_role returned and the basic-execution policy is being created
\* or attached, or one of those calls has just raised
LastCallInCreateRole ==
    /\ calls # <<>>
    /\ \/ IsCreateBasicPolicy(Len(calls))
       \/ IsAttachBasicPolicy(Len(calls))
       \/ /\ calls[Len(calls)][1] = "sts:GetCallerIdentity"
          /\ IsCreateBasicPolicy(Len(calls) - 1)

RaisedInCreateRole ==
    pc = "idle" /\ outcome.status = "raised" /\ LastCallInCreateRole

\* _create_role returned: the attach call of the basic-execution policy
\* was issued and did not raise
CreateRoleReturned ==
    \E i \in 1..Len(calls) :
        IsAttachBasicPolicy(i) /\ ~(i = Len(calls) /\ outcome.status = "raised")

\* C27: when _create_role finds that the policy {role_name}-basic-execution
\* already exists, it returns with the new role in place and that existing
\* policy, unchanged, attached to it; and when creating or attaching the
\* policy fails with any other fault, _create_role raises that fault (never
\* the 'already exists' answer) and the role it has just created stays.
C27_ExistingBasicPolicyReused ==
    InRoleCall =>
        /\ (CreateRoleReturned /\ pre.policies[BasicArn(loc.role_name)].exists) =>
              /\ policies[BasicArn(loc.role_name)] = pre.policies[BasicArn(loc.role_name)]
              /\ roles[loc.role_name].exists
              /\ roles[loc.role_name].id \notin OldIds
              /\ <<loc.role_name, BasicArn(loc.role_name)>> \in attached
        /\ RaisedInCreateRole =>
              /\ outcome.type = "ClientError"
              /\ outcome.msg # "EntityAlreadyExists"
              /\ roles[loc.role_name].exists
              /\ roles[loc.role_name].id \notin OldIds
              /\ roles[loc.role_name].trust = {"lambda.amazonaws.com"}

\* The role was absent and its basic-execution policy existed: the call
\* returned with the role created and the old policy attached to it
C27_Witness ==
    /\ RoleCallReturned
    /\ ~pre.roles[loc.role_name].exists
    /\ pre.policies[BasicArn(loc.role_name)].exists
    /\ policies[BasicArn(loc.role_name)].id = pre.policies[BasicArn(loc.role_name)].id
    /\ <<loc.role_name, BasicArn(loc.role_name)>> \in attached
    /\ \E i \in 1..Len(calls) : IsCreateBasicPolicy(i)

\* Attaching the policy that existed failed: the call raised and the role
\* it had just created is in place
C27_WitnessRaised ==
    /\ InRoleCall /\ RaisedInCreateRole
    /\ pre.policies[BasicArn(loc.role_name)].exists
    /\ IsAttachBasicPolicy(Len(calls))
    /\ ~pre.roles[loc.role_name].exists /\ roles[loc.role_name].exists

(***************************************************************************)
(* Properties of the waits of deploy_function.                             *)
(***************************************************************************)
MutatingApis == {"lambda:CreateFunction", "lambda:UpdateFunctionCode",
                 "lambda:UpdateFunctionConfiguration"}
WaitPcs == {"wait_function_active", "wait_code_updated", "wait_configuration_updated"}

\* The function deploy_function works on is there and no update of it is
\* pending
FunctionReady ==
    functions[args.function_name].exists /\ ~functions[args.function_name].busy

\* C28: in deploy_function every mutating call that succeeded is followed
\* by a wait, and a wait returns only when the provider reports the
\* function ready: the configuration update is issued only after the code
\* update has completed, and deploy_function returns only when the function
\* is ready.  The ARN it returns is the one the last mutating call
\* answered, which is create_function or update_function_configuration.
C28_WaitAfterEveryMutation ==
    /\ [](InDeployFunction =>
            /\ pc = "update_function_configuration" =>
                  /\ FunctionReady
                  /\ functions[args.function_name].image = args.ecr_image_uri
                  /\ calls[Len(calls)][1] = "lambda:UpdateFunctionCode"
            /\ FunctionCallReturned =>
                  /\ FunctionReady
                  /\ calls[Len(calls)][1] \in {"lambda:CreateFunction",
                                                "lambda:UpdateFunctionConfiguration"}
                  /\ outcome.function_arn = loc.function_arn
                  /\ outcome.function_arn = functions[args.function_name].arn)
    /\ [][(/\ entry' = "deploy_function"
            /\ calls' # calls /\ calls' # <<>>
            /\ calls'[Len(calls')][1] \in MutatingApis
            /\ outcome'.status # "raised") => pc' \in WaitPcs]_vars
    /\ [][(/\ entry = "deploy_function"
            /\ pc \in WaitPcs /\ pc' # pc
            /\ outcome'.status # "raised") => FunctionReady]_vars

\* deploy_function returned after it updated the code and then the
\* configuration of a function that existed
C28_Witness ==
    /\ FunctionCallReturned
    /\ pre.functions[args.function_name].exists
    /\ pre.functions[args.function_name].image # args.ecr_image_uri
    /\ ApisCalled = <<"lambda:GetFunction", "lambda:UpdateFunctionCode",
                      "lambda:UpdateFunctionConfiguration">>
    /\ FunctionReady

\* C29: when deploy_function updates a function that exists and is given
\* no network attachment, the function's network attachment stays what it
\* was before the call, all through the call: a function bound to a VPC
\* stays bound.
C29_NetworkKeptWithoutVpcConfig ==
    (/\ InDeployFunction
     /\ pre.functions[args.function_name].exists
     /\ ~loc.vpc_config.some)
    => functions[args.function_name].vpc = pre.functions[args.function_name].vpc

\* deploy_function without a network attachment returned after it updated
\* the configuration of a function bound to a VPC
C29_Witness ==
    /\ FunctionCallReturned
    /\ ~loc.vpc_config.some
    /\ pre.functions[args.function_name].exists
    /\ pre.functions[args.function_name].vpc.some
    /\ Count("lambda:UpdateFunctionConfiguration") = 1
    /\ functions[args.function_name].memory # pre.functions[args.function_name].memory
    /\ functions[args.function_name].vpc.SubnetIds = <<"s2">>

(***************************************************************************)
(* What create_or_update_role leaves alone on a role it reuses.            *)
(***************************************************************************)
ReusePath ==
    /\ entry = "create_or_update_role"
    /\ pre.roles[args.role_name].exists
    /\ ~args.force_recreate_role

\* The policies attached to the role, its bucket policy left aside
OtherAttached(att) == AttachedTo(att, args.role_name) \ {S3Arn(args.role_name)}

\* C30: create_or_update_role on a role that exists, without
\* force_recreate, changes nothing on the role but the attachment of its
\* bucket policy: the role with its trust document and its inline policies
\* is as before the call, every other policy attached to it is still
\* attached and none is added, and no basic-execution policy is created or
\* attached.
C30_ReuseTouchesOnlyBucketPolicy ==
    ReusePath =>
        /\ roles[args.role_name] = pre.roles[args.role_name]
        /\ OtherAttached(attached) = OtherAttached(pre.attached)
        /\ policies[BasicArn(args.role_name)] = pre.policies[BasicArn(args.role_name)]
        /\ \A i \in 1..Len(calls) :
              /\ ~IsCreateBasicPolicy(i)
              /\ ~IsAttachBasicPolicy(i)
              /\ calls[i][1] \notin {"iam:DeleteRolePolicy", "iam:DeleteRole",
                                     "iam:CreateRole"}

\* The call returned on a role that had another trust document, an inline
\* policy and a foreign policy attached, no basic-execution policy and no
\* bucket policy attached; the bucket policy is attached now
C30_Witness ==
    /\ RoleCallReturned
    /\ ReusePath
    /\ roles[args.role_name].trust = {"ec2.amazonaws.com"}
    /\ roles[args.role_name].inline # {}
    /\ OtherAttached(attached) = {ForeignPolicyArn}
    /\ ~policies[BasicArn(args.role_name)].exists
    /\ S3Arn(args.role_name) \notin AttachedTo(pre.attached, args.role_name)
    /\ S3Arn(args.role_name) \in AttachedTo(attached, args.role_name)

(***************************************************************************)
(* What the storage step of a deploy leaves alone.                         *)
(***************************************************************************)
\* The function step of the deploy returned
FunctionStepReturned == entry = "deploy" /\ Stepped("function", "ret")

\* The function is as the function step of the deploy left it, its
\* environment and a pending update left aside
AsFunctionStepLeftIt(fn) ==
    /\ fn.exists
    /\ fn.arn = loc.function_arn
    /\ fn.image = args.ecr_image_uri
    /\ fn.role = loc.role_arn
    /\ fn.memory = args.memory_size
    /\ fn.timeout = args.timeout
    /\ fn.vpc = IF loc.vpc_config.some THEN loc.vpc_config
                ELSE pre.functions[args.function_name].vpc

\* C31: from the return of the function step of a deploy on, through the
\* storage step and after it, the function's image, role, memory size,
\* timeout and network attachment are the ones the function step set; no
\* storage call changes anything of a function but its environment, and
\* no storage call changes a role, a policy or an attachment.
C31_StorageChangesOnlyEnvironment ==
    /\ [](FunctionStepReturned => AsFunctionStepLeftIt(functions[args.function_name]))
    /\ [][(pc \in {"head_bucket", "get_function_configuration", "update_environment",
                   "wait_environment_updated"} /\ pc' # pc) =>
            /\ [f \in FunctionNames |-> [functions'[f] EXCEPT !.env = functions[f].env,
                                                             !.busy = functions[f].busy]]
                 = functions
            /\ roles' = roles /\ policies' = policies /\ attached' = attached]_vars

\* A deploy returned: the function was there before with another memory
\* size and environment, the deploy gave it a network attachment, and the
\* storage step has written the bucket into its environment
C31_Witness ==
    /\ entry = "deploy" /\ pc = "idle" /\ outcome.status = "returned"
    /\ pre.functions[args.function_name].exists
    /\ loc.vpc_config.some
    /\ functions[args.function_name].memory # pre.functions[args.function_name].memory
    /\ functions[args.function_name].env # pre.functions[args.function_name].env
    /\ <<"S3_BUCKET", args.s3_bucket>> \in functions[args.function_name].env
    /\ AsFunctionStepLeftIt(functions[args.function_name])

(***************************************************************************)
(* Properties of two calls of create_or_update_role that overlap.          *)
(***************************************************************************)
RoleCallEnded(p) ==
    /\ p.entry = "create_or_update_role"
    /\ p.pc = "idle"
    /\ p.outcome.status \in {"returned", "raised"}

BothRoleCallsEnded == \A p \in Processes : RoleCallEnded(p)

\* The bucket-scoped access policies attached to the role
BucketPoliciesAttached ==
    {p \in AttachedTo(attached, args.role_name) : policies[p].kind = "s3"}

\* C32: two calls of create_or_update_role on one role name with different
\* buckets run as two processes.  Once both have ended, the role has at
\* most one bucket-scoped access policy attached; and if both returned,
\* the role has exactly one, which exists, is the policy named after the
\* role, and is scoped to the bucket of one of the two calls.
C32_OneBucketPolicyAfterOverlap ==
    (BothRoleCallsEnded /\ args.role_name = peer.args.role_name
       /\ args.s3_bucket # peer.args.s3_bucket) =>
        /\ Cardinality(BucketPoliciesAttached) <= 1
        /\ \A p \in AttachedTo(attached, args.role_name) : policies[p].exists
        /\ (\A p \in Processes : p.outcome.status = "returned") =>
              /\ BucketPoliciesAttached = {S3Arn(args.role_name)}
              /\ policies[S3Arn(args.role_name)].exists
              /\ policies[S3Arn(args.role_name)].bucket
                    \in {args.s3_bucket, peer.args.s3_bucket}

\* Both calls returned, and each was entered before the other had touched
\* the bucket policy the role had: both found the policy of the third
\* bucket, and the policy is now the one the second to create it created
C32_Witness ==
    /\ BothRoleCallsEnded
    /\ \A p \in Processes : p.outcome.status = "returned"
    /\ args.s3_bucket # peer.args.s3_bucket
    /\ \A p \in Processes :
          /\ p.pre.roles[args.role_name].exists
          /\ p.pre.policies[S3Arn(args.role_name)].bucket = "b0"
          /\ p.pre.policies[S3Arn(args.role_name)].id # policies[S3Arn(args.role_name)].id
          /\ p.pre.attached = peer.pre.attached
          /\ Issued(p, "iam:CreatePolicy")
    /\ policies[S3Arn(args.role_name)].bucket = args.s3_bucket

(***************************************************************************)
(* Termination of a deploy.                                                 *)
(***************************************************************************)
DeployEnded ==
    /\ entry = "deploy" /\ pc = "idle"
    /\ \/ outcome.status = "returned" /\ outcome.function_arn # "" /\ outcome.role_arn # ""
       \/ outcome.status = "raised" /\ outcome.type # ""

\* The paging loops of the role manager: the listing call and the call
\* made for each entry of a page
PagingLoops ==
    {[list |-> "list_attached_role_policies", item |-> "detach_role_policy"],
     [list |-> "list_role_policies", item |-> "delete_role_policy"],
     [list |-> "list_entities_for_policy", item |-> "detach_policy_from_role"]}

\* A step inside a paging loop that leads to its listing call: a further
\* page is about to be requested
RequestsFurtherPage(lp) ==
    /\ pc \in {lp.list, lp.item}
    /\ pc' = lp.list

\* C33: every deploy ends, with its result record or with an error, given
\* that every call and wait returns and listings are finite; and a paging
\* loop of the role manager requests a further page only when the page it
\* received last was truncated, so it requests none after a page that was
\* not.
C33_DeployTerminates ==
    /\ [](entry = "deploy" => <>DeployEnded)
    /\ [][\A lp \in PagingLoops : RequestsFurtherPage(lp) => loc'.truncated]_vars
    /\ [][\A lp \in PagingLoops :
            (pc = lp.list /\ pc' # "idle" /\ ~loc'.truncated /\ loc'.page = <<>>)
               => pc' \notin {lp.list, lp.item}]_vars

\* A deploy returned its record after it paged through the attachments of
\* the role in more than one request
C33_Witness ==
    /\ DeployEnded
    /\ outcome.status = "returned"
    /\ Count("iam:ListAttachedRolePolicies") > 1
    /\ Count("iam:ListEntitiesForPolicy") >= 1
    /\ Count("iam:DeleteRole") = 1

(***************************************************************************)
(* Subnet lists create_vpc_config accepts.                                  *)
(***************************************************************************)
\* Every member of the list exists, is available and belongs to the VPC
EveryMemberValid(ids, vpc_id) ==
    \A i \in 1..Len(ids) :
       /\ ids[i] \in DOMAIN ec2.subnets
       /\ ec2.subnets[ids[i]].VpcId = vpc_id
       /\ ec2.subnets[ids[i]].State = "available"

NoMemberTwice(ids) == \A i, j \in 1..Len(ids) : i # j => ids[i] # ids[j]

\* create_vpc_config ended on an available VPC, with subnets that are all
\* valid and security groups that are valid when supplied
ValidNetworkCallEnded ==
    /\ VpcCallEnded
    /\ ~VpcBad(args.vpc_id)
    /\ EveryMemberValid(args.subnet_ids.v, args.vpc_id)
    /\ GroupsSupplied(args) => ~GroupsBad(args.security_group_ids.v, args.vpc_id)

\* C34 as claimed: create_vpc_config accepts every subnet list whose
\* members all exist, are available and belong to the given available VPC,
\* a list that names a subnet more than once included: the call returns
\* the descriptor with the list as given.
C34_Claimed_ValidSubnetListAccepted ==
    ValidNetworkCallEnded =>
        /\ outcome.status = "returned"
        /\ loc.vpc_config.SubnetIds = args.subnet_ids.v

\* What holds: a list of valid subnets is accepted when no subnet is named
\* twice, and is rejected as invalid when one is
C34_ValidListAcceptedUnlessRepeated ==
    ValidNetworkCallEnded =>
        IF NoMemberTwice(args.subnet_ids.v)
        THEN outcome.status = "returned" /\ loc.vpc_config.SubnetIds = args.subnet_ids.v
        ELSE outcome = Raised("ValueError", "Invalid subnets")

\* The list names the available subnet s1 of vpc-1 twice and the call
\* failed with the invalid-subnets error
C34_Witness ==
    /\ ValidNetworkCallEnded
    /\ args.vpc_id = "vpc-1"
    /\ args.subnet_ids.v = <<"s1", "s1">>
    /\ outcome = Raised("ValueError", "Invalid subnets")
    /\ ApisCalled = <<"ec2:DescribeVpcs", "ec2:DescribeSubnets">>

====
